---- MODULE Spec2Model ----
(***************************************************************************)
(* A model of the nwsl newsletter tool: the inbox scan that derives the    *)
(* subscriber list (newsletter.py sync_subscribers and                     *)
(* EmailService.get_subscribers), the send-email command's choice of the   *)
(* HTML and the plain part, and the dry-run / confirmation gate in front   *)
(* of SMTP sendmail (newsletter.py send_email_func and                     *)
(* EmailService.send_email).                                               *)
(*                                                                         *)
(* Python strings are sequences of one-character strings, so that `in`,    *)
(* str.lower, str.endswith and the regular expressions are computed on the *)
(* characters. Python's None is the one-element sequence <<"None">>, which *)
(* no string equals (its element is no character of any string).           *)
(***************************************************************************)
EXTENDS Integers, Sequences, FiniteSets, TLC

\* Longest inbox the model scans.
MaxMsgs == 3

None == <<"None">>

\* Python truthiness of an Optional[str]: None and "" are falsy.
Truthy(x) == x /= None /\ x /= <<>>

UpperLetters == <<"A","B","C","D","E","F","G","H","I","J","K","L","M",
                  "N","O","P","Q","R","S","T","U","V","W","X","Y","Z">>
LowerLetters == <<"a","b","c","d","e","f","g","h","i","j","k","l","m",
                  "n","o","p","q","r","s","t","u","v","w","x","y","z">>
Digits == {"0","1","2","3","4","5","6","7","8","9"}
Letters == {UpperLetters[i] : i \in 1..26} \cup {LowerLetters[i] : i \in 1..26}

\* str.lower() on one character and on a string.
LowerChar(c) ==
    IF \E i \in 1..26 : UpperLetters[i] = c
    THEN LowerLetters[CHOOSE i \in 1..26 : UpperLetters[i] = c]
    ELSE c
Lower(s) == [i \in 1..Len(s) |-> LowerChar(s[i])]

\* sub occurs in s at position i.
OccursAt(sub, s, i) ==
    /\ i >= 1
    /\ i + Len(sub) - 1 <= Len(s)
    /\ \A k \in 1..Len(sub) : s[i + k - 1] = sub[k]

\* Python's `sub in s` for strings.
Contains(sub, s) == \E i \in 1..(Len(s) + 1) : OccursAt(sub, s, i)

\* str.endswith.
EndsWith(s, suffix) ==
    /\ Len(suffix) <= Len(s)
    /\ OccursAt(suffix, s, Len(s) - Len(suffix) + 1)

\* The last index of the longest run of characters of class C that starts at
\* position i of s; i - 1 when s[i] is not in C (a greedy [C]* from i).
RunEnd(s, i, C) ==
    LET stops == {k \in i..Len(s) : s[k] \notin C}
    IN  IF stops = {} THEN Len(s)
        ELSE (CHOOSE k \in stops : \A m \in stops : k <= m) - 1

\* The character classes of email_regex.
LocalClass == Letters \cup Digits \cup {"_", ".", "+", "-"}
DomainClass == Letters \cup Digits \cup {"-"}
TailClass == Letters \cup Digits \cup {"-", "."}

\* email_regex matched at position i of s: 0 when it does not match there,
\* else the index of the last matched character.  No class contains "@" and
\* DomainClass does not contain ".", so the greedy runs are the only way to
\* match and backtracking finds nothing more.
EmailMatchEnd(s, i) ==
    LET j == RunEnd(s, i, LocalClass)
        k == RunEnd(s, j + 2, DomainClass)
        e == RunEnd(s, k + 2, TailClass)
    IN  IF i > Len(s) \/ j < i THEN 0
        ELSE IF j + 1 > Len(s) \/ s[j + 1] /= "@" THEN 0
        ELSE IF k < j + 2 THEN 0
        ELSE IF k + 1 > Len(s) \/ s[k + 1] /= "." THEN 0
        ELSE IF e < k + 2 THEN 0
        ELSE e

\* re.search(email_regex, sender) followed by .group(): the leftmost match,
\* or None when there is none.
email_regex_search(sender) ==
    IF \E i \in 1..Len(sender) : EmailMatchEnd(sender, i) > 0
    THEN LET i == CHOOSE p \in 1..Len(sender) :
                      /\ EmailMatchEnd(sender, p) > 0
                      /\ \A q \in 1..(p - 1) : EmailMatchEnd(sender, q) = 0
         IN  SubSeq(sender, i, EmailMatchEnd(sender, i))
    ELSE None

\* `x in subscribers` and list.remove(x) (the first occurrence) on a list.
InList(x, l) == \E i \in 1..Len(l) : l[i] = x
Remove(l, x) ==
    LET i == CHOOSE p \in 1..Len(l) : l[p] = x /\ \A q \in 1..(p - 1) : l[q] /= x
    IN  SubSeq(l, 1, i - 1) \o SubSeq(l, i + 1, Len(l))

unsubscribe_kw == <<"u","n","s","u","b","s","c","r","i","b","e">>
subscribe_kw == <<"s","u","b","s","c","r","i","b","e">>


\* ---------------------------------------------------------------- inputs

\* The from headers the mailbox may hold: "<a@x.y>", "b@x.y", and "a@x", in
\* which email_regex finds no address.
FromHeaders == { <<"<","a","@","x",".","y",">">>,
                 <<"b","@","x",".","y">>,
                 <<"a","@","x">> }

\* The subjects the mailbox may hold: "Subscribe", "Unsubscribe", "hi".
Subjects == { <<"S","u","b","s","c","r","i","b","e">>,
              <<"U","n","s","u","b","s","c","r","i","b","e">>,
              <<"h","i">> }

\* What msg['from'] and msg['subject'] give for a header that is no str:
\* None for a message without the header, an email.header.Header object for
\* a header with raw 8-bit bytes.  Neither equals a string.
Header8bit == <<"Header">>
IsStr(h) == h /= None /\ h /= Header8bit

\* The messages the mailbox may hold: those with both headers strings, and
\* messages whose From or whose Subject is no str.
StringMessages == [from : FromHeaders, subject : Subjects]
Messages ==
    StringMessages
    \cup [from : {None, Header8bit},
          subject : {<<"S","u","b","s","c","r","i","b","e">>, None}]
    \cup [from : {<<"<","a","@","x",".","y",">">>, <<"a","@","x">>},
          subject : {None, Header8bit}]
Inboxes == UNION {[1..n -> Messages] : n \in 0..MaxMsgs}
Responses == {"OK", "NO"}

\* ----------------------------------------------------------------- state

VARIABLES
    pc,               \* where the run is
    config,           \* ctx.obj, the Config that cli() built
    inbox,            \* the messages whose numbers search returned, in order
    search_response,  \* the response of imap_server.search
    failing_fetch,    \* history: the message whose fetch answered "NO" (0: none)
    message_index,    \* the loop's position in message_numbers
    subscribers,      \* the subscribers list
    prev_subscribers, \* history: the list before the last processed message
    scan_error,       \* history: what ended the scan early ("none", "search",
                      \* "fetch", "parse", or "header" for a header that is no str)
    filepath,         \* the send-email command's first document
    alternative,      \* its second document, or NoFile
    dry_run,          \* --dry-run
    subject_opt,      \* --subject, or None
    html_text,        \* the HTML part handed to the send function
    plain_text,       \* the plain part handed to the send function
    title,            \* the title the send function derived
    isatty,           \* sys.stdin.isatty()
    prompted,         \* whether click.confirm was called
    answered,         \* the answer click.confirm read ("" when it was not called)
    sendmail_calls,   \* the recipient lists of the server.sendmail calls
    report,           \* the send function's last line of output
    error,            \* the exception that ended the run ("" when none)
    exit_code         \* the command's exit code (-1 while running)

scan_vars == <<inbox, search_response, failing_fetch, message_index,
               subscribers, prev_subscribers, scan_error>>
arg_vars == <<filepath, alternative, dry_run, subject_opt>>
content_vars == <<html_text, plain_text>>
send_vars == <<title, isatty, prompted, answered, sendmail_calls, report>>
end_vars == <<error, exit_code>>
vars == <<pc, config, scan_vars, arg_vars, content_vars, send_vars, end_vars>>

\* -------------------------------------------------------------- the scan

\* The texts a server may put behind its NO: none, one byte, several.  For a
\* response NO imaplib returns the text in place of the message data
\* (msg_raw = [text]).
NoTexts == { <<>>, <<"x">>,
             <<"f","e","t","c","h"," ","f","a","i","l","e","d">> }

\* email.message_from_bytes(msg_raw[0][1]) for msg_raw = [text]: a text
\* shorter than two bytes has no index 1; of a longer one index 1 is an int,
\* which message_from_bytes cannot decode.
parse_no_text(text) == IF Len(text) < 2 THEN "IndexError" ELSE "AttributeError"

\* newsletter.py, sync_subscribers: the membership update of one message.
sync_update(subs, sender_email, subject) ==
    IF Contains(unsubscribe_kw, Lower(subject)) /\ InList(sender_email, subs)
    THEN Remove(subs, sender_email)
    ELSE IF Contains(subscribe_kw, Lower(subject)) /\ ~InList(sender_email, subs)
    THEN Append(subs, sender_email)
    ELSE subs

\* newsletter.py, sync_subscribers: one iteration of the loop over
\* message_numbers.  The fetched data is parsed (msg_raw[0][1]) before the
\* response is tested: for a response other than OK imaplib hands back the
\* response text in place of the message and the parse raises; the echo
\* and the break behind it are never run.  msg is the message of an OK
\* response, text the text of another one.  A From that is no str makes
\* re.search raise TypeError; a Subject that is no str has no lower(), which
\* raises AttributeError once the sender has parsed.  brk says that the
\* iteration
\* left the loop with a break, err which error it echoed, raised names the
\* exception that left the function ("" when none).
sync_iteration(subs, msg_response, msg, text) ==
    IF msg_response /= "OK"
    THEN [subscribers |-> subs, brk |-> FALSE, err |-> "none",
          raised |-> parse_no_text(text)]
    ELSE IF ~IsStr(msg.from)
    THEN [subscribers |-> subs, brk |-> FALSE, err |-> "none",
          raised |-> "TypeError"]
    ELSE IF email_regex_search(msg.from) = None
    THEN [subscribers |-> subs, brk |-> TRUE, err |-> "parse", raised |-> ""]
    ELSE IF ~IsStr(msg.subject)
    THEN [subscribers |-> subs, brk |-> FALSE, err |-> "none",
          raised |-> "AttributeError"]
    ELSE [subscribers |-> sync_update(subs, email_regex_search(msg.from), msg.subject),
          brk |-> FALSE, err |-> "none", raised |-> ""]

\* get_update that appends without looking whether the sender is listed.
get_update_no_membership_test(subs, sender_email, subject) ==
    IF Contains(unsubscribe_kw, Lower(subject)) /\ InList(sender_email, subs)
    THEN Remove(subs, sender_email)
    ELSE IF Contains(subscribe_kw, Lower(subject))
    THEN Append(subs, sender_email)
    ELSE subs

\* email_service.py, EmailService.get_subscribers: the membership update.
get_update(subs, sender_email, subject) ==
    IF Contains(unsubscribe_kw, Lower(subject)) /\ InList(sender_email, subs)
    THEN Remove(subs, sender_email)
    ELSE IF Contains(subscribe_kw, Lower(subject)) /\ ~InList(sender_email, subs)
    THEN Append(subs, sender_email)
    ELSE subs

\* email_service.py, EmailService.get_subscribers: one loop iteration; the
\* same order of parse and test as in sync_subscribers.
get_iteration(subs, msg_response, msg, text) ==
    IF msg_response /= "OK"
    THEN [subscribers |-> subs, brk |-> FALSE, err |-> "none",
          raised |-> parse_no_text(text)]
    ELSE IF ~IsStr(msg.from)
    THEN [subscribers |-> subs, brk |-> FALSE, err |-> "none",
          raised |-> "TypeError"]
    ELSE IF email_regex_search(msg.from) = None
    THEN [subscribers |-> subs, brk |-> TRUE, err |-> "parse", raised |-> ""]
    ELSE IF ~IsStr(msg.subject)
    THEN [subscribers |-> subs, brk |-> FALSE, err |-> "none",
          raised |-> "AttributeError"]
    ELSE [subscribers |-> get_update(subs, email_regex_search(msg.from), msg.subject),
          brk |-> FALSE, err |-> "none", raised |-> ""]


\* ------------------------------------------------------------ the config

\* An exception class, an instance of one, and no exception at all.
ExcClass(n) == [kind |-> "class", cls |-> n]
ExcInstance(n) == [kind |-> "instance", cls |-> n]
NoError == [kind |-> "none", cls |-> ""]

\* What cli() can find at CONFIG_FILEPATH: no file, a file that is no JSON, a
\* JSON value that is falsy ({}), a JSON list, a JSON object that lacks a
\* key, or a JSON object with the three keys, each value empty or not.
ConfigValues == { <<>>, <<"v">> }
ConfigFiles ==
    [kind : {"missing", "not_json", "falsy", "list", "no_key"},
     host : {None}, user : {None}, password : {None}]
    \cup [kind : {"ok"}, host : ConfigValues, user : ConfigValues,
          password : ConfigValues]

\* newsletter.py, cli: the Config built from the file.
load_config(file) ==
    CASE file.kind = "missing" ->
             [host |-> None, user |-> None, password |-> None,
              error |-> ExcInstance("FileNotFoundError")]
      [] file.kind = "not_json" ->
             [host |-> None, user |-> None, password |-> None,
              error |-> ExcInstance("JSONDecodeError")]
      [] file.kind = "falsy" ->
             [host |-> None, user |-> None, password |-> None,
              error |-> ExcInstance("AssertionError")]
      [] file.kind = "list" ->
             [host |-> None, user |-> None, password |-> None,
              error |-> ExcInstance("TypeError")]
      [] file.kind = "no_key" ->
             [host |-> None, user |-> None, password |-> None,
              error |-> ExcInstance("KeyError")]
      [] file.kind = "ok" ->
             [host |-> file.host, user |-> file.user,
              password |-> file.password, error |-> NoError]

NoConfig == [host |-> None, user |-> None, password |-> None, error |-> NoError]

\* newsletter.py, ensure_config: the usage error it raises, "" when none.
\* `config.error in [AssertionError, FileNotFoundError]` compares the stored
\* value with the exception classes.
ensure_config(cfg) ==
    IF cfg.error \in {ExcClass("AssertionError"), ExcClass("FileNotFoundError")}
    THEN "Couldn't find config file"
    ELSE IF cfg.error \in {ExcClass("JSONDecodeError"), ExcClass("KeyError"),
                           ExcClass("TypeError")}
    THEN "Couldn't read config file"
    ELSE IF ~Truthy(cfg.host) \/ ~Truthy(cfg.user) \/ ~Truthy(cfg.password)
    THEN "Config file contains empty value(s)"
    ELSE ""

\* ------------------------------------------------------------ documents

\* File names: "a.html", "b.html", "c.txt", "d.HTML".
FileNames == { <<"a",".","h","t","m","l">>, <<"b",".","h","t","m","l">>,
               <<"c",".","t","x","t">>, <<"d",".","H","T","M","L">> }

\* File contents: "<html><h1>T</h1>", "<h1>&amp;</h1>", "<HTML>", "# T", "x"
\* and the empty file.
Bodies == { <<"<","h","t","m","l",">","<","h","1",">","T","<","/","h","1",">">>,
            <<"<","h","1",">","&","a","m","p",";","<","/","h","1",">">>,
            <<"<","H","T","M","L",">">>,
            <<"#"," ","T">>,
            <<"x">>,
            <<>> }

Files == [name : FileNames, body : Bodies]
NoFile == [name |-> None, body |-> None]


\* newsletter.py, send_email.is_html.
is_html(name) == EndsWith(name, <<".","h","t","m","l">>)

\* newsletter.py, send_email: `alternative and is_html(alternative.name)`.
is_alternative_html(alt) == alt /= NoFile /\ is_html(alt.name)

\* content_conflict without the test for two plain documents.
content_conflict_both_only(f, alt) ==
    IF alt = NoFile THEN ""
    ELSE IF is_html(f.name) /\ is_alternative_html(alt) THEN "Both files are HTML"
    ELSE ""

\* newsletter.py, send_email: the usage error of the two-document check, ""
\* when it raises none.
content_conflict(f, alt) ==
    IF alt = NoFile THEN ""
    ELSE IF is_html(f.name) /\ is_alternative_html(alt) THEN "Both files are HTML"
    ELSE IF ~is_html(f.name) /\ ~is_alternative_html(alt) THEN "Neither file is HTML"
    ELSE ""

\* select_content that takes the first document as the HTML part and the
\* second as the plain part.
select_content_by_position(f, alt) ==
    IF alt = NoFile
    THEN [html_text  |-> IF is_html(f.name) THEN f.body ELSE None,
          plain_text |-> IF is_html(f.name) THEN None ELSE f.body]
    ELSE [html_text |-> f.body, plain_text |-> alt.body]

\* newsletter.py, send_email: the parts handed to send_email_func.
select_content(f, alt) ==
    IF alt = NoFile
    THEN [html_text  |-> IF is_html(f.name) THEN f.body ELSE None,
          plain_text |-> IF is_html(f.name) THEN None ELSE f.body]
    ELSE [html_text  |-> IF is_html(f.name) THEN f.body ELSE alt.body,
          plain_text |-> IF is_html(f.name) THEN alt.body ELSE f.body]

\* ---------------------------------------------------------------- titles

h1_open == <<"<","h","1",">">>
h1_close == <<"<","/","h","1",">">>
md_heading == <<"#"," ">>
Untitled == <<"U","n","t","i","t","l","e","d">>
Newline == "\n"

\* `.` of a regular expression matches every character but the newline.
NoNewline(s, a, b) == \A k \in a..b : s[k] /= Newline

\* r"<h1>(.+)<\/h1>" matched at position i of s: the start of the last
\* "</h1>" that a greedy (.+) reaches, 0 when there is no match at i.
HtmlTitleClose(s, i) ==
    LET ends == {j \in (i + 5)..Len(s) :
                    OccursAt(h1_close, s, j) /\ NoNewline(s, i + 4, j - 1)}
    IN  IF OccursAt(h1_open, s, i) /\ ends /= {}
        THEN CHOOSE j \in ends : \A j2 \in ends : j2 <= j
        ELSE 0

\* find_title_in_html (both files): group 1 of the leftmost match, or None.
find_title_in_html(s) ==
    IF \E i \in 1..Len(s) : HtmlTitleClose(s, i) > 0
    THEN LET i == CHOOSE p \in 1..Len(s) :
                      /\ HtmlTitleClose(s, p) > 0
                      /\ \A q \in 1..(p - 1) : HtmlTitleClose(s, q) = 0
         IN  SubSeq(s, i + 4, HtmlTitleClose(s, i) - 1)
    ELSE None

\* The last index of the line that position i of s is on.
LineEnd(s, i) ==
    CHOOSE j \in i..Len(s) :
        NoNewline(s, i, j) /\ (j = Len(s) \/ s[j + 1] = Newline)

\* r"# (.+)" matches at position i of s.
MdTitleAt(s, i) ==
    OccursAt(md_heading, s, i) /\ i + 2 <= Len(s) /\ s[i + 2] /= Newline

\* find_title_in_markdown (both files): group 1 of the leftmost match, or None.
find_title_in_markdown(s) ==
    IF \E i \in 1..Len(s) : MdTitleAt(s, i)
    THEN LET i == CHOOSE p \in 1..Len(s) :
                      MdTitleAt(s, p) /\ \A q \in 1..(p - 1) : ~MdTitleAt(s, q)
         IN  SubSeq(s, i + 2, LineEnd(s, i + 2))
    ELSE None

Drop(s, n) == SubSeq(s, n + 1, Len(s))

\* ---- html.unescape (the standard library's html module), as
\* EmailService.send_email calls it on the <h1> text.  A character outside
\* printable ASCII, and the grave accent chr(96), which a string of this
\* module cannot hold, is written "chr(n)", n its code point in decimal.

\* The characters chr(32) .. chr(126).
Ascii ==
    << " ", "!", "\"", "#", "$", "%", "&", "'", "(", ")", "*", "+", ",", "-",
       ".", "/", "0", "1", "2", "3", "4", "5", "6", "7", "8", "9", ":", ";",
       "<", "=", ">", "?", "@", "A", "B", "C", "D", "E", "F", "G", "H", "I",
       "J", "K", "L", "M", "N", "O", "P", "Q", "R", "S", "T", "U", "V", "W",
       "X", "Y", "Z", "[", "\\", "]", "^", "_", "chr(96)", "a", "b", "c", "d",
       "e", "f", "g", "h", "i", "j", "k", "l", "m", "n", "o", "p", "q", "r",
       "s", "t", "u", "v", "w", "x", "y", "z", "{", "|", "}", "~" >>

\* chr(n).
Chr(n) ==
    IF n \in 32..126 THEN Ascii[n - 31]
    ELSE CASE n = 9 -> "\t"
           [] n = 10 -> "\n"
           [] n = 12 -> "\f"
           [] n = 13 -> "\r"
           [] OTHER -> "chr(" \o ToString(n) \o ")"

\* str.join of the characters of a name: the key into html5.
RECURSIVE Join(_)
Join(s) == IF s = <<>> THEN "" ELSE s[1] \o Join(Tail(s))

\* html._invalid_charrefs: the numeric references that stand for another
\* code point, as pairs <<number, code point>>.
invalid_charrefs ==
    { <<0, 65533>>, <<13, 13>>, <<128, 8364>>, <<129, 129>>, <<130, 8218>>,
      <<131, 402>>, <<132, 8222>>, <<133, 8230>>, <<134, 8224>>,
      <<135, 8225>>, <<136, 710>>, <<137, 8240>>, <<138, 352>>, <<139, 8249>>,
      <<140, 338>>, <<141, 141>>, <<142, 381>>, <<143, 143>>, <<144, 144>>,
      <<145, 8216>>, <<146, 8217>>, <<147, 8220>>, <<148, 8221>>,
      <<149, 8226>>, <<150, 8211>>, <<151, 8212>>, <<152, 732>>,
      <<153, 8482>>, <<154, 353>>, <<155, 8250>>, <<156, 339>>, <<157, 157>>,
      <<158, 382>>, <<159, 376>> }

\* html._invalid_codepoints: the code points a numeric reference may not
\* name; such a reference is replaced by nothing.
invalid_codepoints ==
    (1..8) \cup (14..31) \cup (127..159) \cup (64976..65007) \cup
    (65534..65535) \cup (131070..131071) \cup (196606..196607) \cup
    (262142..262143) \cup (327678..327679) \cup (393214..393215) \cup
    (458750..458751) \cup (524286..524287) \cup (589822..589823) \cup
    (655358..655359) \cup (720894..720895) \cup (786430..786431) \cup
    (851966..851967) \cup (917502..917503) \cup (983038..983039) \cup
    (1048574..1048575) \cup (1114110..1114111) \cup
    { 11 }

\* html.entities.html5: the named character references, as pairs
\* <<name, replacement>>; a name holds its closing semicolon when it has one.
html5 ==
    { <<"AElig", <<"chr(198)">>>>, <<"AElig;", <<"chr(198)">>>>,
      <<"AMP", <<"&">>>>, <<"AMP;", <<"&">>>>, <<"Aacute", <<"chr(193)">>>>,
      <<"Aacute;", <<"chr(193)">>>>, <<"Abreve;", <<"chr(258)">>>>,
      <<"Acirc", <<"chr(194)">>>>, <<"Acirc;", <<"chr(194)">>>>,
      <<"Acy;", <<"chr(1040)">>>>, <<"Afr;", <<"chr(120068)">>>>,
      <<"Agrave", <<"chr(192)">>>>, <<"Agrave;", <<"chr(192)">>>>,
      <<"Alpha;", <<"chr(913)">>>>, <<"Amacr;", <<"chr(256)">>>>,
      <<"And;", <<"chr(10835)">>>>, <<"Aogon;", <<"chr(260)">>>>,
      <<"Aopf;", <<"chr(120120)">>>>, <<"ApplyFunction;", <<"chr(8289)">>>>,
      <<"Aring", <<"chr(197)">>>>, <<"Aring;", <<"chr(197)">>>>,
      <<"Ascr;", <<"chr(119964)">>>>, <<"Assign;", <<"chr(8788)">>>>,
      <<"Atilde", <<"chr(195)">>>>, <<"Atilde;", <<"chr(195)">>>>,
      <<"Auml", <<"chr(196)">>>>, <<"Auml;", <<"chr(196)">>>>,
      <<"Backslash;", <<"chr(8726)">>>>, <<"Barv;", <<"chr(10983)">>>>,
      <<"Barwed;", <<"chr(8966)">>>>, <<"Bcy;", <<"chr(1041)">>>>,
      <<"Because;", <<"chr(8757)">>>>, <<"Bernoullis;", <<"chr(8492)">>>>,
      <<"Beta;", <<"chr(914)">>>>, <<"Bfr;", <<"chr(120069)">>>>,
      <<"Bopf;", <<"chr(120121)">>>>, <<"Breve;", <<"chr(728)">>>>,
      <<"Bscr;", <<"chr(8492)">>>>, <<"Bumpeq;", <<"chr(8782)">>>>,
      <<"CHcy;", <<"chr(1063)">>>>, <<"COPY", <<"chr(169)">>>>,
      <<"COPY;", <<"chr(169)">>>>, <<"Cacute;", <<"chr(262)">>>>,
      <<"Cap;", <<"chr(8914)">>>>,
      <<"CapitalDifferentialD;", <<"chr(8517)">>>>,
      <<"Cayleys;", <<"chr(8493)">>>>, <<"Ccaron;", <<"chr(268)">>>>,
      <<"Ccedil", <<"chr(199)">>>>, <<"Ccedil;", <<"chr(199)">>>>,
      <<"Ccirc;", <<"chr(264)">>>>, <<"Cconint;", <<"chr(8752)">>>>,
      <<"Cdot;", <<"chr(266)">>>>, <<"Cedilla;", <<"chr(184)">>>>,
      <<"CenterDot;", <<"chr(183)">>>>, <<"Cfr;", <<"chr(8493)">>>>,
      <<"Chi;", <<"chr(935)">>>>, <<"CircleDot;", <<"chr(8857)">>>>,
      <<"CircleMinus;", <<"chr(8854)">>>>, <<"CirclePlus;", <<"chr(8853)">>>>,
      <<"CircleTimes;", <<"chr(8855)">>>>,
      <<"ClockwiseContourIntegral;", <<"chr(8754)">>>>,
      <<"CloseCurlyDoubleQuote;", <<"chr(8221)">>>>,
      <<"CloseCurlyQuote;", <<"chr(8217)">>>>, <<"Colon;", <<"chr(8759)">>>>,
      <<"Colone;", <<"chr(10868)">>>>, <<"Congruent;", <<"chr(8801)">>>>,
      <<"Conint;", <<"chr(8751)">>>>, <<"ContourIntegral;", <<"chr(8750)">>>>,
      <<"Copf;", <<"chr(8450)">>>>, <<"Coproduct;", <<"chr(8720)">>>>,
      <<"CounterClockwiseContourIntegral;", <<"chr(8755)">>>>,
      <<"Cross;", <<"chr(10799)">>>>, <<"Cscr;", <<"chr(119966)">>>>,
      <<"Cup;", <<"chr(8915)">>>>, <<"CupCap;", <<"chr(8781)">>>>,
      <<"DD;", <<"chr(8517)">>>>, <<"DDotrahd;", <<"chr(10513)">>>>,
      <<"DJcy;", <<"chr(1026)">>>>, <<"DScy;", <<"chr(1029)">>>>,
      <<"DZcy;", <<"chr(1039)">>>>, <<"Dagger;", <<"chr(8225)">>>>,
      <<"Darr;", <<"chr(8609)">>>>, <<"Dashv;", <<"chr(10980)">>>>,
      <<"Dcaron;", <<"chr(270)">>>>, <<"Dcy;", <<"chr(1044)">>>>,
      <<"Del;", <<"chr(8711)">>>>, <<"Delta;", <<"chr(916)">>>>,
      <<"Dfr;", <<"chr(120071)">>>>, <<"DiacriticalAcute;", <<"chr(180)">>>>,
      <<"DiacriticalDot;", <<"chr(729)">>>>,
      <<"DiacriticalDoubleAcute;", <<"chr(733)">>>>,
      <<"DiacriticalGrave;", <<"chr(96)">>>>,
      <<"DiacriticalTilde;", <<"chr(732)">>>>,
      <<"Diamond;", <<"chr(8900)">>>>, <<"DifferentialD;", <<"chr(8518)">>>>,
      <<"Dopf;", <<"chr(120123)">>>>, <<"Dot;", <<"chr(168)">>>>,
      <<"DotDot;", <<"chr(8412)">>>>, <<"DotEqual;", <<"chr(8784)">>>>,
      <<"DoubleContourIntegral;", <<"chr(8751)">>>>,
      <<"DoubleDot;", <<"chr(168)">>>>,
      <<"DoubleDownArrow;", <<"chr(8659)">>>>,
      <<"DoubleLeftArrow;", <<"chr(8656)">>>>,
      <<"DoubleLeftRightArrow;", <<"chr(8660)">>>>,
      <<"DoubleLeftTee;", <<"chr(10980)">>>>,
      <<"DoubleLongLeftArrow;", <<"chr(10232)">>>>,
      <<"DoubleLongLeftRightArrow;", <<"chr(10234)">>>>,
      <<"DoubleLongRightArrow;", <<"chr(10233)">>>>,
      <<"DoubleRightArrow;", <<"chr(8658)">>>>,
      <<"DoubleRightTee;", <<"chr(8872)">>>>,
      <<"DoubleUpArrow;", <<"chr(8657)">>>>,
      <<"DoubleUpDownArrow;", <<"chr(8661)">>>>,
      <<"DoubleVerticalBar;", <<"chr(8741)">>>>,
      <<"DownArrow;", <<"chr(8595)">>>>,
      <<"DownArrowBar;", <<"chr(10515)">>>>,
      <<"DownArrowUpArrow;", <<"chr(8693)">>>>,
      <<"DownBreve;", <<"chr(785)">>>>,
      <<"DownLeftRightVector;", <<"chr(10576)">>>>,
      <<"DownLeftTeeVector;", <<"chr(10590)">>>>,
      <<"DownLeftVector;", <<"chr(8637)">>>>,
      <<"DownLeftVectorBar;", <<"chr(10582)">>>>,
      <<"DownRightTeeVector;", <<"chr(10591)">>>>,
      <<"DownRightVector;", <<"chr(8641)">>>>,
      <<"DownRightVectorBar;", <<"chr(10583)">>>>,
      <<"DownTee;", <<"chr(8868)">>>>, <<"DownTeeArrow;", <<"chr(8615)">>>>,
      <<"Downarrow;", <<"chr(8659)">>>>, <<"Dscr;", <<"chr(119967)">>>>,
      <<"Dstrok;", <<"chr(272)">>>>, <<"ENG;", <<"chr(330)">>>>,
      <<"ETH", <<"chr(208)">>>>, <<"ETH;", <<"chr(208)">>>>,
      <<"Eacute", <<"chr(201)">>>>, <<"Eacute;", <<"chr(201)">>>>,
      <<"Ecaron;", <<"chr(282)">>>>, <<"Ecirc", <<"chr(202)">>>>,
      <<"Ecirc;", <<"chr(202)">>>>, <<"Ecy;", <<"chr(1069)">>>>,
      <<"Edot;", <<"chr(278)">>>>, <<"Efr;", <<"chr(120072)">>>>,
      <<"Egrave", <<"chr(200)">>>>, <<"Egrave;", <<"chr(200)">>>>,
      <<"Element;", <<"chr(8712)">>>>, <<"Emacr;", <<"chr(274)">>>>,
      <<"EmptySmallSquare;", <<"chr(9723)">>>>,
      <<"EmptyVerySmallSquare;", <<"chr(9643)">>>>,
      <<"Eogon;", <<"chr(280)">>>>, <<"Eopf;", <<"chr(120124)">>>>,
      <<"Epsilon;", <<"chr(917)">>>>, <<"Equal;", <<"chr(10869)">>>>,
      <<"EqualTilde;", <<"chr(8770)">>>>, <<"Equilibrium;", <<"chr(8652)">>>>,
      <<"Escr;", <<"chr(8496)">>>>, <<"Esim;", <<"chr(10867)">>>>,
      <<"Eta;", <<"chr(919)">>>>, <<"Euml", <<"chr(203)">>>>,
      <<"Euml;", <<"chr(203)">>>>, <<"Exists;", <<"chr(8707)">>>>,
      <<"ExponentialE;", <<"chr(8519)">>>>, <<"Fcy;", <<"chr(1060)">>>>,
      <<"Ffr;", <<"chr(120073)">>>>,
      <<"FilledSmallSquare;", <<"chr(9724)">>>>,
      <<"FilledVerySmallSquare;", <<"chr(9642)">>>>,
      <<"Fopf;", <<"chr(120125)">>>>, <<"ForAll;", <<"chr(8704)">>>>,
      <<"Fouriertrf;", <<"chr(8497)">>>>, <<"Fscr;", <<"chr(8497)">>>>,
      <<"GJcy;", <<"chr(1027)">>>>, <<"GT", <<">">>>>, <<"GT;", <<">">>>>,
      <<"Gamma;", <<"chr(915)">>>>, <<"Gammad;", <<"chr(988)">>>>,
      <<"Gbreve;", <<"chr(286)">>>>, <<"Gcedil;", <<"chr(290)">>>>,
      <<"Gcirc;", <<"chr(284)">>>>, <<"Gcy;", <<"chr(1043)">>>>,
      <<"Gdot;", <<"chr(288)">>>>, <<"Gfr;", <<"chr(120074)">>>>,
      <<"Gg;", <<"chr(8921)">>>>, <<"Gopf;", <<"chr(120126)">>>>,
      <<"GreaterEqual;", <<"chr(8805)">>>>,
      <<"GreaterEqualLess;", <<"chr(8923)">>>>,
      <<"GreaterFullEqual;", <<"chr(8807)">>>>,
      <<"GreaterGreater;", <<"chr(10914)">>>>,
      <<"GreaterLess;", <<"chr(8823)">>>>,
      <<"GreaterSlantEqual;", <<"chr(10878)">>>>,
      <<"GreaterTilde;", <<"chr(8819)">>>>, <<"Gscr;", <<"chr(119970)">>>>,
      <<"Gt;", <<"chr(8811)">>>>, <<"HARDcy;", <<"chr(1066)">>>>,
      <<"Hacek;", <<"chr(711)">>>>, <<"Hat;", <<"^">>>>,
      <<"Hcirc;", <<"chr(292)">>>>, <<"Hfr;", <<"chr(8460)">>>>,
      <<"HilbertSpace;", <<"chr(8459)">>>>, <<"Hopf;", <<"chr(8461)">>>>,
      <<"HorizontalLine;", <<"chr(9472)">>>>, <<"Hscr;", <<"chr(8459)">>>>,
      <<"Hstrok;", <<"chr(294)">>>>, <<"HumpDownHump;", <<"chr(8782)">>>>,
      <<"HumpEqual;", <<"chr(8783)">>>>, <<"IEcy;", <<"chr(1045)">>>>,
      <<"IJlig;", <<"chr(306)">>>>, <<"IOcy;", <<"chr(1025)">>>>,
      <<"Iacute", <<"chr(205)">>>>, <<"Iacute;", <<"chr(205)">>>>,
      <<"Icirc", <<"chr(206)">>>>, <<"Icirc;", <<"chr(206)">>>>,
      <<"Icy;", <<"chr(1048)">>>>, <<"Idot;", <<"chr(304)">>>>,
      <<"Ifr;", <<"chr(8465)">>>>, <<"Igrave", <<"chr(204)">>>>,
      <<"Igrave;", <<"chr(204)">>>>, <<"Im;", <<"chr(8465)">>>>,
      <<"Imacr;", <<"chr(298)">>>>, <<"ImaginaryI;", <<"chr(8520)">>>>,
      <<"Implies;", <<"chr(8658)">>>>, <<"Int;", <<"chr(8748)">>>>,
      <<"Integral;", <<"chr(8747)">>>>, <<"Intersection;", <<"chr(8898)">>>>,
      <<"InvisibleComma;", <<"chr(8291)">>>>,
      <<"InvisibleTimes;", <<"chr(8290)">>>>, <<"Iogon;", <<"chr(302)">>>>,
      <<"Iopf;", <<"chr(120128)">>>>, <<"Iota;", <<"chr(921)">>>>,
      <<"Iscr;", <<"chr(8464)">>>>, <<"Itilde;", <<"chr(296)">>>>,
      <<"Iukcy;", <<"chr(1030)">>>>, <<"Iuml", <<"chr(207)">>>>,
      <<"Iuml;", <<"chr(207)">>>>, <<"Jcirc;", <<"chr(308)">>>>,
      <<"Jcy;", <<"chr(1049)">>>>, <<"Jfr;", <<"chr(120077)">>>>,
      <<"Jopf;", <<"chr(120129)">>>>, <<"Jscr;", <<"chr(119973)">>>>,
      <<"Jsercy;", <<"chr(1032)">>>>, <<"Jukcy;", <<"chr(1028)">>>>,
      <<"KHcy;", <<"chr(1061)">>>>, <<"KJcy;", <<"chr(1036)">>>>,
      <<"Kappa;", <<"chr(922)">>>>, <<"Kcedil;", <<"chr(310)">>>>,
      <<"Kcy;", <<"chr(1050)">>>>, <<"Kfr;", <<"chr(120078)">>>>,
      <<"Kopf;", <<"chr(120130)">>>>, <<"Kscr;", <<"chr(119974)">>>>,
      <<"LJcy;", <<"chr(1033)">>>>, <<"LT", <<"<">>>>, <<"LT;", <<"<">>>>,
      <<"Lacute;", <<"chr(313)">>>>, <<"Lambda;", <<"chr(923)">>>>,
      <<"Lang;", <<"chr(10218)">>>>, <<"Laplacetrf;", <<"chr(8466)">>>>,
      <<"Larr;", <<"chr(8606)">>>>, <<"Lcaron;", <<"chr(317)">>>>,
      <<"Lcedil;", <<"chr(315)">>>>, <<"Lcy;", <<"chr(1051)">>>>,
      <<"LeftAngleBracket;", <<"chr(10216)">>>>,
      <<"LeftArrow;", <<"chr(8592)">>>>, <<"LeftArrowBar;", <<"chr(8676)">>>>,
      <<"LeftArrowRightArrow;", <<"chr(8646)">>>>,
      <<"LeftCeiling;", <<"chr(8968)">>>>,
      <<"LeftDoubleBracket;", <<"chr(10214)">>>>,
      <<"LeftDownTeeVector;", <<"chr(10593)">>>>,
      <<"LeftDownVector;", <<"chr(8643)">>>>,
      <<"LeftDownVectorBar;", <<"chr(10585)">>>>,
      <<"LeftFloor;", <<"chr(8970)">>>>,
      <<"LeftRightArrow;", <<"chr(8596)">>>>,
      <<"LeftRightVector;", <<"chr(10574)">>>>,
      <<"LeftTee;", <<"chr(8867)">>>>, <<"LeftTeeArrow;", <<"chr(8612)">>>>,
      <<"LeftTeeVector;", <<"chr(10586)">>>>,
      <<"LeftTriangle;", <<"chr(8882)">>>>,
      <<"LeftTriangleBar;", <<"chr(10703)">>>>,
      <<"LeftTriangleEqual;", <<"chr(8884)">>>>,
      <<"LeftUpDownVector;", <<"chr(10577)">>>>,
      <<"LeftUpTeeVector;", <<"chr(10592)">>>>,
      <<"LeftUpVector;", <<"chr(8639)">>>>,
      <<"LeftUpVectorBar;", <<"chr(10584)">>>>,
      <<"LeftVector;", <<"chr(8636)">>>>,
      <<"LeftVectorBar;", <<"chr(10578)">>>>,
      <<"Leftarrow;", <<"chr(8656)">>>>,
      <<"Leftrightarrow;", <<"chr(8660)">>>>,
      <<"LessEqualGreater;", <<"chr(8922)">>>>,
      <<"LessFullEqual;", <<"chr(8806)">>>>,
      <<"LessGreater;", <<"chr(8822)">>>>, <<"LessLess;", <<"chr(10913)">>>>,
      <<"LessSlantEqual;", <<"chr(10877)">>>>,
      <<"LessTilde;", <<"chr(8818)">>>>, <<"Lfr;", <<"chr(120079)">>>>,
      <<"Ll;", <<"chr(8920)">>>>, <<"Lleftarrow;", <<"chr(8666)">>>>,
      <<"Lmidot;", <<"chr(319)">>>>, <<"LongLeftArrow;", <<"chr(10229)">>>>,
      <<"LongLeftRightArrow;", <<"chr(10231)">>>>,
      <<"LongRightArrow;", <<"chr(10230)">>>>,
      <<"Longleftarrow;", <<"chr(10232)">>>>,
      <<"Longleftrightarrow;", <<"chr(10234)">>>>,
      <<"Longrightarrow;", <<"chr(10233)">>>>, <<"Lopf;", <<"chr(120131)">>>>,
      <<"LowerLeftArrow;", <<"chr(8601)">>>>,
      <<"LowerRightArrow;", <<"chr(8600)">>>>, <<"Lscr;", <<"chr(8466)">>>>,
      <<"Lsh;", <<"chr(8624)">>>>, <<"Lstrok;", <<"chr(321)">>>>,
      <<"Lt;", <<"chr(8810)">>>>, <<"Map;", <<"chr(10501)">>>>,
      <<"Mcy;", <<"chr(1052)">>>>, <<"MediumSpace;", <<"chr(8287)">>>>,
      <<"Mellintrf;", <<"chr(8499)">>>>, <<"Mfr;", <<"chr(120080)">>>>,
      <<"MinusPlus;", <<"chr(8723)">>>>, <<"Mopf;", <<"chr(120132)">>>>,
      <<"Mscr;", <<"chr(8499)">>>>, <<"Mu;", <<"chr(924)">>>>,
      <<"NJcy;", <<"chr(1034)">>>>, <<"Nacute;", <<"chr(323)">>>>,
      <<"Ncaron;", <<"chr(327)">>>>, <<"Ncedil;", <<"chr(325)">>>>,
      <<"Ncy;", <<"chr(1053)">>>>,
      <<"NegativeMediumSpace;", <<"chr(8203)">>>>,
      <<"NegativeThickSpace;", <<"chr(8203)">>>>,
      <<"NegativeThinSpace;", <<"chr(8203)">>>>,
      <<"NegativeVeryThinSpace;", <<"chr(8203)">>>>,
      <<"NestedGreaterGreater;", <<"chr(8811)">>>>,
      <<"NestedLessLess;", <<"chr(8810)">>>>, <<"NewLine;", <<"\n">>>>,
      <<"Nfr;", <<"chr(120081)">>>>, <<"NoBreak;", <<"chr(8288)">>>>,
      <<"NonBreakingSpace;", <<"chr(160)">>>>, <<"Nopf;", <<"chr(8469)">>>>,
      <<"Not;", <<"chr(10988)">>>>, <<"NotCongruent;", <<"chr(8802)">>>>,
      <<"NotCupCap;", <<"chr(8813)">>>>,
      <<"NotDoubleVerticalBar;", <<"chr(8742)">>>>,
      <<"NotElement;", <<"chr(8713)">>>>, <<"NotEqual;", <<"chr(8800)">>>>,
      <<"NotEqualTilde;", <<"chr(8770)", "chr(824)">>>>,
      <<"NotExists;", <<"chr(8708)">>>>, <<"NotGreater;", <<"chr(8815)">>>>,
      <<"NotGreaterEqual;", <<"chr(8817)">>>>,
      <<"NotGreaterFullEqual;", <<"chr(8807)", "chr(824)">>>>,
      <<"NotGreaterGreater;", <<"chr(8811)", "chr(824)">>>>,
      <<"NotGreaterLess;", <<"chr(8825)">>>>,
      <<"NotGreaterSlantEqual;", <<"chr(10878)", "chr(824)">>>>,
      <<"NotGreaterTilde;", <<"chr(8821)">>>>,
      <<"NotHumpDownHump;", <<"chr(8782)", "chr(824)">>>>,
      <<"NotHumpEqual;", <<"chr(8783)", "chr(824)">>>>,
      <<"NotLeftTriangle;", <<"chr(8938)">>>>,
      <<"NotLeftTriangleBar;", <<"chr(10703)", "chr(824)">>>>,
      <<"NotLeftTriangleEqual;", <<"chr(8940)">>>>,
      <<"NotLess;", <<"chr(8814)">>>>, <<"NotLessEqual;", <<"chr(8816)">>>>,
      <<"NotLessGreater;", <<"chr(8824)">>>>,
      <<"NotLessLess;", <<"chr(8810)", "chr(824)">>>>,
      <<"NotLessSlantEqual;", <<"chr(10877)", "chr(824)">>>>,
      <<"NotLessTilde;", <<"chr(8820)">>>>,
      <<"NotNestedGreaterGreater;", <<"chr(10914)", "chr(824)">>>>,
      <<"NotNestedLessLess;", <<"chr(10913)", "chr(824)">>>>,
      <<"NotPrecedes;", <<"chr(8832)">>>>,
      <<"NotPrecedesEqual;", <<"chr(10927)", "chr(824)">>>>,
      <<"NotPrecedesSlantEqual;", <<"chr(8928)">>>>,
      <<"NotReverseElement;", <<"chr(8716)">>>>,
      <<"NotRightTriangle;", <<"chr(8939)">>>>,
      <<"NotRightTriangleBar;", <<"chr(10704)", "chr(824)">>>>,
      <<"NotRightTriangleEqual;", <<"chr(8941)">>>>,
      <<"NotSquareSubset;", <<"chr(8847)", "chr(824)">>>>,
      <<"NotSquareSubsetEqual;", <<"chr(8930)">>>>,
      <<"NotSquareSuperset;", <<"chr(8848)", "chr(824)">>>>,
      <<"NotSquareSupersetEqual;", <<"chr(8931)">>>>,
      <<"NotSubset;", <<"chr(8834)", "chr(8402)">>>>,
      <<"NotSubsetEqual;", <<"chr(8840)">>>>,
      <<"NotSucceeds;", <<"chr(8833)">>>>,
      <<"NotSucceedsEqual;", <<"chr(10928)", "chr(824)">>>>,
      <<"NotSucceedsSlantEqual;", <<"chr(8929)">>>>,
      <<"NotSucceedsTilde;", <<"chr(8831)", "chr(824)">>>>,
      <<"NotSuperset;", <<"chr(8835)", "chr(8402)">>>>,
      <<"NotSupersetEqual;", <<"chr(8841)">>>>,
      <<"NotTilde;", <<"chr(8769)">>>>, <<"NotTildeEqual;", <<"chr(8772)">>>>,
      <<"NotTildeFullEqual;", <<"chr(8775)">>>>,
      <<"NotTildeTilde;", <<"chr(8777)">>>>,
      <<"NotVerticalBar;", <<"chr(8740)">>>>, <<"Nscr;", <<"chr(119977)">>>>,
      <<"Ntilde", <<"chr(209)">>>>, <<"Ntilde;", <<"chr(209)">>>>,
      <<"Nu;", <<"chr(925)">>>>, <<"OElig;", <<"chr(338)">>>>,
      <<"Oacute", <<"chr(211)">>>>, <<"Oacute;", <<"chr(211)">>>>,
      <<"Ocirc", <<"chr(212)">>>>, <<"Ocirc;", <<"chr(212)">>>>,
      <<"Ocy;", <<"chr(1054)">>>>, <<"Odblac;", <<"chr(336)">>>>,
      <<"Ofr;", <<"chr(120082)">>>>, <<"Ograve", <<"chr(210)">>>>,
      <<"Ograve;", <<"chr(210)">>>>, <<"Omacr;", <<"chr(332)">>>>,
      <<"Omega;", <<"chr(937)">>>>, <<"Omicron;", <<"chr(927)">>>>,
      <<"Oopf;", <<"chr(120134)">>>>,
      <<"OpenCurlyDoubleQuote;", <<"chr(8220)">>>>,
      <<"OpenCurlyQuote;", <<"chr(8216)">>>>, <<"Or;", <<"chr(10836)">>>>,
      <<"Oscr;", <<"chr(119978)">>>>, <<"Oslash", <<"chr(216)">>>>,
      <<"Oslash;", <<"chr(216)">>>>, <<"Otilde", <<"chr(213)">>>>,
      <<"Otilde;", <<"chr(213)">>>>, <<"Otimes;", <<"chr(10807)">>>>,
      <<"Ouml", <<"chr(214)">>>>, <<"Ouml;", <<"chr(214)">>>>,
      <<"OverBar;", <<"chr(8254)">>>>, <<"OverBrace;", <<"chr(9182)">>>>,
      <<"OverBracket;", <<"chr(9140)">>>>,
      <<"OverParenthesis;", <<"chr(9180)">>>>,
      <<"PartialD;", <<"chr(8706)">>>>, <<"Pcy;", <<"chr(1055)">>>>,
      <<"Pfr;", <<"chr(120083)">>>>, <<"Phi;", <<"chr(934)">>>>,
      <<"Pi;", <<"chr(928)">>>>, <<"PlusMinus;", <<"chr(177)">>>>,
      <<"Poincareplane;", <<"chr(8460)">>>>, <<"Popf;", <<"chr(8473)">>>>,
      <<"Pr;", <<"chr(10939)">>>>, <<"Precedes;", <<"chr(8826)">>>>,
      <<"PrecedesEqual;", <<"chr(10927)">>>>,
      <<"PrecedesSlantEqual;", <<"chr(8828)">>>>,
      <<"PrecedesTilde;", <<"chr(8830)">>>>, <<"Prime;", <<"chr(8243)">>>>,
      <<"Product;", <<"chr(8719)">>>>, <<"Proportion;", <<"chr(8759)">>>>,
      <<"Proportional;", <<"chr(8733)">>>>, <<"Pscr;", <<"chr(119979)">>>>,
      <<"Psi;", <<"chr(936)">>>>, <<"QUOT", <<"\"">>>>, <<"QUOT;", <<"\"">>>>,
      <<"Qfr;", <<"chr(120084)">>>>, <<"Qopf;", <<"chr(8474)">>>>,
      <<"Qscr;", <<"chr(119980)">>>>, <<"RBarr;", <<"chr(10512)">>>>,
      <<"REG", <<"chr(174)">>>>, <<"REG;", <<"chr(174)">>>>,
      <<"Racute;", <<"chr(340)">>>>, <<"Rang;", <<"chr(10219)">>>>,
      <<"Rarr;", <<"chr(8608)">>>>, <<"Rarrtl;", <<"chr(10518)">>>>,
      <<"Rcaron;", <<"chr(344)">>>>, <<"Rcedil;", <<"chr(342)">>>>,
      <<"Rcy;", <<"chr(1056)">>>>, <<"Re;", <<"chr(8476)">>>>,
      <<"ReverseElement;", <<"chr(8715)">>>>,
      <<"ReverseEquilibrium;", <<"chr(8651)">>>>,
      <<"ReverseUpEquilibrium;", <<"chr(10607)">>>>,
      <<"Rfr;", <<"chr(8476)">>>>, <<"Rho;", <<"chr(929)">>>>,
      <<"RightAngleBracket;", <<"chr(10217)">>>>,
      <<"RightArrow;", <<"chr(8594)">>>>,
      <<"RightArrowBar;", <<"chr(8677)">>>>,
      <<"RightArrowLeftArrow;", <<"chr(8644)">>>>,
      <<"RightCeiling;", <<"chr(8969)">>>>,
      <<"RightDoubleBracket;", <<"chr(10215)">>>>,
      <<"RightDownTeeVector;", <<"chr(10589)">>>>,
      <<"RightDownVector;", <<"chr(8642)">>>>,
      <<"RightDownVectorBar;", <<"chr(10581)">>>>,
      <<"RightFloor;", <<"chr(8971)">>>>, <<"RightTee;", <<"chr(8866)">>>>,
      <<"RightTeeArrow;", <<"chr(8614)">>>>,
      <<"RightTeeVector;", <<"chr(10587)">>>>,
      <<"RightTriangle;", <<"chr(8883)">>>>,
      <<"RightTriangleBar;", <<"chr(10704)">>>>,
      <<"RightTriangleEqual;", <<"chr(8885)">>>>,
      <<"RightUpDownVector;", <<"chr(10575)">>>>,
      <<"RightUpTeeVector;", <<"chr(10588)">>>>,
      <<"RightUpVector;", <<"chr(8638)">>>>,
      <<"RightUpVectorBar;", <<"chr(10580)">>>>,
      <<"RightVector;", <<"chr(8640)">>>>,
      <<"RightVectorBar;", <<"chr(10579)">>>>,
      <<"Rightarrow;", <<"chr(8658)">>>>, <<"Ropf;", <<"chr(8477)">>>>,
      <<"RoundImplies;", <<"chr(10608)">>>>,
      <<"Rrightarrow;", <<"chr(8667)">>>>, <<"Rscr;", <<"chr(8475)">>>>,
      <<"Rsh;", <<"chr(8625)">>>>, <<"RuleDelayed;", <<"chr(10740)">>>>,
      <<"SHCHcy;", <<"chr(1065)">>>>, <<"SHcy;", <<"chr(1064)">>>>,
      <<"SOFTcy;", <<"chr(1068)">>>>, <<"Sacute;", <<"chr(346)">>>>,
      <<"Sc;", <<"chr(10940)">>>>, <<"Scaron;", <<"chr(352)">>>>,
      <<"Scedil;", <<"chr(350)">>>>, <<"Scirc;", <<"chr(348)">>>>,
      <<"Scy;", <<"chr(1057)">>>>, <<"Sfr;", <<"chr(120086)">>>>,
      <<"ShortDownArrow;", <<"chr(8595)">>>>,
      <<"ShortLeftArrow;", <<"chr(8592)">>>>,
      <<"ShortRightArrow;", <<"chr(8594)">>>>,
      <<"ShortUpArrow;", <<"chr(8593)">>>>, <<"Sigma;", <<"chr(931)">>>>,
      <<"SmallCircle;", <<"chr(8728)">>>>, <<"Sopf;", <<"chr(120138)">>>>,
      <<"Sqrt;", <<"chr(8730)">>>>, <<"Square;", <<"chr(9633)">>>>,
      <<"SquareIntersection;", <<"chr(8851)">>>>,
      <<"SquareSubset;", <<"chr(8847)">>>>,
      <<"SquareSubsetEqual;", <<"chr(8849)">>>>,
      <<"SquareSuperset;", <<"chr(8848)">>>>,
      <<"SquareSupersetEqual;", <<"chr(8850)">>>>,
      <<"SquareUnion;", <<"chr(8852)">>>>, <<"Sscr;", <<"chr(119982)">>>>,
      <<"Star;", <<"chr(8902)">>>>, <<"Sub;", <<"chr(8912)">>>>,
      <<"Subset;", <<"chr(8912)">>>>, <<"SubsetEqual;", <<"chr(8838)">>>>,
      <<"Succeeds;", <<"chr(8827)">>>>,
      <<"SucceedsEqual;", <<"chr(10928)">>>>,
      <<"SucceedsSlantEqual;", <<"chr(8829)">>>>,
      <<"SucceedsTilde;", <<"chr(8831)">>>>, <<"SuchThat;", <<"chr(8715)">>>>,
      <<"Sum;", <<"chr(8721)">>>>, <<"Sup;", <<"chr(8913)">>>>,
      <<"Superset;", <<"chr(8835)">>>>, <<"SupersetEqual;", <<"chr(8839)">>>>,
      <<"Supset;", <<"chr(8913)">>>>, <<"THORN", <<"chr(222)">>>>,
      <<"THORN;", <<"chr(222)">>>>, <<"TRADE;", <<"chr(8482)">>>>,
      <<"TSHcy;", <<"chr(1035)">>>>, <<"TScy;", <<"chr(1062)">>>>,
      <<"Tab;", <<"\t">>>>, <<"Tau;", <<"chr(932)">>>>,
      <<"Tcaron;", <<"chr(356)">>>>, <<"Tcedil;", <<"chr(354)">>>>,
      <<"Tcy;", <<"chr(1058)">>>>, <<"Tfr;", <<"chr(120087)">>>>,
      <<"Therefore;", <<"chr(8756)">>>>, <<"Theta;", <<"chr(920)">>>>,
      <<"ThickSpace;", <<"chr(8287)", "chr(8202)">>>>,
      <<"ThinSpace;", <<"chr(8201)">>>>, <<"Tilde;", <<"chr(8764)">>>>,
      <<"TildeEqual;", <<"chr(8771)">>>>,
      <<"TildeFullEqual;", <<"chr(8773)">>>>,
      <<"TildeTilde;", <<"chr(8776)">>>>, <<"Topf;", <<"chr(120139)">>>>,
      <<"TripleDot;", <<"chr(8411)">>>>, <<"Tscr;", <<"chr(119983)">>>>,
      <<"Tstrok;", <<"chr(358)">>>>, <<"Uacute", <<"chr(218)">>>>,
      <<"Uacute;", <<"chr(218)">>>>, <<"Uarr;", <<"chr(8607)">>>>,
      <<"Uarrocir;", <<"chr(10569)">>>>, <<"Ubrcy;", <<"chr(1038)">>>>,
      <<"Ubreve;", <<"chr(364)">>>>, <<"Ucirc", <<"chr(219)">>>>,
      <<"Ucirc;", <<"chr(219)">>>>, <<"Ucy;", <<"chr(1059)">>>>,
      <<"Udblac;", <<"chr(368)">>>>, <<"Ufr;", <<"chr(120088)">>>>,
      <<"Ugrave", <<"chr(217)">>>>, <<"Ugrave;", <<"chr(217)">>>>,
      <<"Umacr;", <<"chr(362)">>>>, <<"UnderBar;", <<"_">>>>,
      <<"UnderBrace;", <<"chr(9183)">>>>,
      <<"UnderBracket;", <<"chr(9141)">>>>,
      <<"UnderParenthesis;", <<"chr(9181)">>>>, <<"Union;", <<"chr(8899)">>>>,
      <<"UnionPlus;", <<"chr(8846)">>>>, <<"Uogon;", <<"chr(370)">>>>,
      <<"Uopf;", <<"chr(120140)">>>>, <<"UpArrow;", <<"chr(8593)">>>>,
      <<"UpArrowBar;", <<"chr(10514)">>>>,
      <<"UpArrowDownArrow;", <<"chr(8645)">>>>,
      <<"UpDownArrow;", <<"chr(8597)">>>>,
      <<"UpEquilibrium;", <<"chr(10606)">>>>, <<"UpTee;", <<"chr(8869)">>>>,
      <<"UpTeeArrow;", <<"chr(8613)">>>>, <<"Uparrow;", <<"chr(8657)">>>>,
      <<"Updownarrow;", <<"chr(8661)">>>>,
      <<"UpperLeftArrow;", <<"chr(8598)">>>>,
      <<"UpperRightArrow;", <<"chr(8599)">>>>, <<"Upsi;", <<"chr(978)">>>>,
      <<"Upsilon;", <<"chr(933)">>>>, <<"Uring;", <<"chr(366)">>>>,
      <<"Uscr;", <<"chr(119984)">>>>, <<"Utilde;", <<"chr(360)">>>>,
      <<"Uuml", <<"chr(220)">>>>, <<"Uuml;", <<"chr(220)">>>>,
      <<"VDash;", <<"chr(8875)">>>>, <<"Vbar;", <<"chr(10987)">>>>,
      <<"Vcy;", <<"chr(1042)">>>>, <<"Vdash;", <<"chr(8873)">>>>,
      <<"Vdashl;", <<"chr(10982)">>>>, <<"Vee;", <<"chr(8897)">>>>,
      <<"Verbar;", <<"chr(8214)">>>>, <<"Vert;", <<"chr(8214)">>>>,
      <<"VerticalBar;", <<"chr(8739)">>>>, <<"VerticalLine;", <<"|">>>>,
      <<"VerticalSeparator;", <<"chr(10072)">>>>,
      <<"VerticalTilde;", <<"chr(8768)">>>>,
      <<"VeryThinSpace;", <<"chr(8202)">>>>, <<"Vfr;", <<"chr(120089)">>>>,
      <<"Vopf;", <<"chr(120141)">>>>, <<"Vscr;", <<"chr(119985)">>>>,
      <<"Vvdash;", <<"chr(8874)">>>>, <<"Wcirc;", <<"chr(372)">>>>,
      <<"Wedge;", <<"chr(8896)">>>>, <<"Wfr;", <<"chr(120090)">>>>,
      <<"Wopf;", <<"chr(120142)">>>>, <<"Wscr;", <<"chr(119986)">>>>,
      <<"Xfr;", <<"chr(120091)">>>>, <<"Xi;", <<"chr(926)">>>>,
      <<"Xopf;", <<"chr(120143)">>>>, <<"Xscr;", <<"chr(119987)">>>>,
      <<"YAcy;", <<"chr(1071)">>>>, <<"YIcy;", <<"chr(1031)">>>>,
      <<"YUcy;", <<"chr(1070)">>>>, <<"Yacute", <<"chr(221)">>>>,
      <<"Yacute;", <<"chr(221)">>>>, <<"Ycirc;", <<"chr(374)">>>>,
      <<"Ycy;", <<"chr(1067)">>>>, <<"Yfr;", <<"chr(120092)">>>>,
      <<"Yopf;", <<"chr(120144)">>>>, <<"Yscr;", <<"chr(119988)">>>>,
      <<"Yuml;", <<"chr(376)">>>>, <<"ZHcy;", <<"chr(1046)">>>>,
      <<"Zacute;", <<"chr(377)">>>>, <<"Zcaron;", <<"chr(381)">>>>,
      <<"Zcy;", <<"chr(1047)">>>>, <<"Zdot;", <<"chr(379)">>>>,
      <<"ZeroWidthSpace;", <<"chr(8203)">>>>, <<"Zeta;", <<"chr(918)">>>>,
      <<"Zfr;", <<"chr(8488)">>>>, <<"Zopf;", <<"chr(8484)">>>>,
      <<"Zscr;", <<"chr(119989)">>>>, <<"aacute", <<"chr(225)">>>>,
      <<"aacute;", <<"chr(225)">>>>, <<"abreve;", <<"chr(259)">>>>,
      <<"ac;", <<"chr(8766)">>>>, <<"acE;", <<"chr(8766)", "chr(819)">>>>,
      <<"acd;", <<"chr(8767)">>>>, <<"acirc", <<"chr(226)">>>>,
      <<"acirc;", <<"chr(226)">>>>, <<"acute", <<"chr(180)">>>>,
      <<"acute;", <<"chr(180)">>>>, <<"acy;", <<"chr(1072)">>>>,
      <<"aelig", <<"chr(230)">>>>, <<"aelig;", <<"chr(230)">>>>,
      <<"af;", <<"chr(8289)">>>>, <<"afr;", <<"chr(120094)">>>>,
      <<"agrave", <<"chr(224)">>>>, <<"agrave;", <<"chr(224)">>>>,
      <<"alefsym;", <<"chr(8501)">>>>, <<"aleph;", <<"chr(8501)">>>>,
      <<"alpha;", <<"chr(945)">>>>, <<"amacr;", <<"chr(257)">>>>,
      <<"amalg;", <<"chr(10815)">>>>, <<"amp", <<"&">>>>, <<"amp;", <<"&">>>>,
      <<"and;", <<"chr(8743)">>>>, <<"andand;", <<"chr(10837)">>>>,
      <<"andd;", <<"chr(10844)">>>>, <<"andslope;", <<"chr(10840)">>>>,
      <<"andv;", <<"chr(10842)">>>>, <<"ang;", <<"chr(8736)">>>>,
      <<"ange;", <<"chr(10660)">>>>, <<"angle;", <<"chr(8736)">>>>,
      <<"angmsd;", <<"chr(8737)">>>>, <<"angmsdaa;", <<"chr(10664)">>>>,
      <<"angmsdab;", <<"chr(10665)">>>>, <<"angmsdac;", <<"chr(10666)">>>>,
      <<"angmsdad;", <<"chr(10667)">>>>, <<"angmsdae;", <<"chr(10668)">>>>,
      <<"angmsdaf;", <<"chr(10669)">>>>, <<"angmsdag;", <<"chr(10670)">>>>,
      <<"angmsdah;", <<"chr(10671)">>>>, <<"angrt;", <<"chr(8735)">>>>,
      <<"angrtvb;", <<"chr(8894)">>>>, <<"angrtvbd;", <<"chr(10653)">>>>,
      <<"angsph;", <<"chr(8738)">>>>, <<"angst;", <<"chr(197)">>>>,
      <<"angzarr;", <<"chr(9084)">>>>, <<"aogon;", <<"chr(261)">>>>,
      <<"aopf;", <<"chr(120146)">>>>, <<"ap;", <<"chr(8776)">>>>,
      <<"apE;", <<"chr(10864)">>>>, <<"apacir;", <<"chr(10863)">>>>,
      <<"ape;", <<"chr(8778)">>>>, <<"apid;", <<"chr(8779)">>>>,
      <<"apos;", <<"'">>>>, <<"approx;", <<"chr(8776)">>>>,
      <<"approxeq;", <<"chr(8778)">>>>, <<"aring", <<"chr(229)">>>>,
      <<"aring;", <<"chr(229)">>>>, <<"ascr;", <<"chr(119990)">>>>,
      <<"ast;", <<"*">>>>, <<"asymp;", <<"chr(8776)">>>>,
      <<"asympeq;", <<"chr(8781)">>>>, <<"atilde", <<"chr(227)">>>>,
      <<"atilde;", <<"chr(227)">>>>, <<"auml", <<"chr(228)">>>>,
      <<"auml;", <<"chr(228)">>>>, <<"awconint;", <<"chr(8755)">>>>,
      <<"awint;", <<"chr(10769)">>>>, <<"bNot;", <<"chr(10989)">>>>,
      <<"backcong;", <<"chr(8780)">>>>, <<"backepsilon;", <<"chr(1014)">>>>,
      <<"backprime;", <<"chr(8245)">>>>, <<"backsim;", <<"chr(8765)">>>>,
      <<"backsimeq;", <<"chr(8909)">>>>, <<"barvee;", <<"chr(8893)">>>>,
      <<"barwed;", <<"chr(8965)">>>>, <<"barwedge;", <<"chr(8965)">>>>,
      <<"bbrk;", <<"chr(9141)">>>>, <<"bbrktbrk;", <<"chr(9142)">>>>,
      <<"bcong;", <<"chr(8780)">>>>, <<"bcy;", <<"chr(1073)">>>>,
      <<"bdquo;", <<"chr(8222)">>>>, <<"becaus;", <<"chr(8757)">>>>,
      <<"because;", <<"chr(8757)">>>>, <<"bemptyv;", <<"chr(10672)">>>>,
      <<"bepsi;", <<"chr(1014)">>>>, <<"bernou;", <<"chr(8492)">>>>,
      <<"beta;", <<"chr(946)">>>>, <<"beth;", <<"chr(8502)">>>>,
      <<"between;", <<"chr(8812)">>>>, <<"bfr;", <<"chr(120095)">>>>,
      <<"bigcap;", <<"chr(8898)">>>>, <<"bigcirc;", <<"chr(9711)">>>>,
      <<"bigcup;", <<"chr(8899)">>>>, <<"bigodot;", <<"chr(10752)">>>>,
      <<"bigoplus;", <<"chr(10753)">>>>, <<"bigotimes;", <<"chr(10754)">>>>,
      <<"bigsqcup;", <<"chr(10758)">>>>, <<"bigstar;", <<"chr(9733)">>>>,
      <<"bigtriangledown;", <<"chr(9661)">>>>,
      <<"bigtriangleup;", <<"chr(9651)">>>>,
      <<"biguplus;", <<"chr(10756)">>>>, <<"bigvee;", <<"chr(8897)">>>>,
      <<"bigwedge;", <<"chr(8896)">>>>, <<"bkarow;", <<"chr(10509)">>>>,
      <<"blacklozenge;", <<"chr(10731)">>>>,
      <<"blacksquare;", <<"chr(9642)">>>>,
      <<"blacktriangle;", <<"chr(9652)">>>>,
      <<"blacktriangledown;", <<"chr(9662)">>>>,
      <<"blacktriangleleft;", <<"chr(9666)">>>>,
      <<"blacktriangleright;", <<"chr(9656)">>>>,
      <<"blank;", <<"chr(9251)">>>>, <<"blk12;", <<"chr(9618)">>>>,
      <<"blk14;", <<"chr(9617)">>>>, <<"blk34;", <<"chr(9619)">>>>,
      <<"block;", <<"chr(9608)">>>>, <<"bne;", <<"=", "chr(8421)">>>>,
      <<"bnequiv;", <<"chr(8801)", "chr(8421)">>>>,
      <<"bnot;", <<"chr(8976)">>>>, <<"bopf;", <<"chr(120147)">>>>,
      <<"bot;", <<"chr(8869)">>>>, <<"bottom;", <<"chr(8869)">>>>,
      <<"bowtie;", <<"chr(8904)">>>>, <<"boxDL;", <<"chr(9559)">>>>,
      <<"boxDR;", <<"chr(9556)">>>>, <<"boxDl;", <<"chr(9558)">>>>,
      <<"boxDr;", <<"chr(9555)">>>>, <<"boxH;", <<"chr(9552)">>>>,
      <<"boxHD;", <<"chr(9574)">>>>, <<"boxHU;", <<"chr(9577)">>>>,
      <<"boxHd;", <<"chr(9572)">>>>, <<"boxHu;", <<"chr(9575)">>>>,
      <<"boxUL;", <<"chr(9565)">>>>, <<"boxUR;", <<"chr(9562)">>>>,
      <<"boxUl;", <<"chr(9564)">>>>, <<"boxUr;", <<"chr(9561)">>>>,
      <<"boxV;", <<"chr(9553)">>>>, <<"boxVH;", <<"chr(9580)">>>>,
      <<"boxVL;", <<"chr(9571)">>>>, <<"boxVR;", <<"chr(9568)">>>>,
      <<"boxVh;", <<"chr(9579)">>>>, <<"boxVl;", <<"chr(9570)">>>>,
      <<"boxVr;", <<"chr(9567)">>>>, <<"boxbox;", <<"chr(10697)">>>>,
      <<"boxdL;", <<"chr(9557)">>>>, <<"boxdR;", <<"chr(9554)">>>>,
      <<"boxdl;", <<"chr(9488)">>>>, <<"boxdr;", <<"chr(9484)">>>>,
      <<"boxh;", <<"chr(9472)">>>>, <<"boxhD;", <<"chr(9573)">>>>,
      <<"boxhU;", <<"chr(9576)">>>>, <<"boxhd;", <<"chr(9516)">>>>,
      <<"boxhu;", <<"chr(9524)">>>>, <<"boxminus;", <<"chr(8863)">>>>,
      <<"boxplus;", <<"chr(8862)">>>>, <<"boxtimes;", <<"chr(8864)">>>>,
      <<"boxuL;", <<"chr(9563)">>>>, <<"boxuR;", <<"chr(9560)">>>>,
      <<"boxul;", <<"chr(9496)">>>>, <<"boxur;", <<"chr(9492)">>>>,
      <<"boxv;", <<"chr(9474)">>>>, <<"boxvH;", <<"chr(9578)">>>>,
      <<"boxvL;", <<"chr(9569)">>>>, <<"boxvR;", <<"chr(9566)">>>>,
      <<"boxvh;", <<"chr(9532)">>>>, <<"boxvl;", <<"chr(9508)">>>>,
      <<"boxvr;", <<"chr(9500)">>>>, <<"bprime;", <<"chr(8245)">>>>,
      <<"breve;", <<"chr(728)">>>>, <<"brvbar", <<"chr(166)">>>>,
      <<"brvbar;", <<"chr(166)">>>>, <<"bscr;", <<"chr(119991)">>>>,
      <<"bsemi;", <<"chr(8271)">>>>, <<"bsim;", <<"chr(8765)">>>>,
      <<"bsime;", <<"chr(8909)">>>>, <<"bsol;", <<"\\">>>>,
      <<"bsolb;", <<"chr(10693)">>>>, <<"bsolhsub;", <<"chr(10184)">>>>,
      <<"bull;", <<"chr(8226)">>>>, <<"bullet;", <<"chr(8226)">>>>,
      <<"bump;", <<"chr(8782)">>>>, <<"bumpE;", <<"chr(10926)">>>>,
      <<"bumpe;", <<"chr(8783)">>>>, <<"bumpeq;", <<"chr(8783)">>>>,
      <<"cacute;", <<"chr(263)">>>>, <<"cap;", <<"chr(8745)">>>>,
      <<"capand;", <<"chr(10820)">>>>, <<"capbrcup;", <<"chr(10825)">>>>,
      <<"capcap;", <<"chr(10827)">>>>, <<"capcup;", <<"chr(10823)">>>>,
      <<"capdot;", <<"chr(10816)">>>>,
      <<"caps;", <<"chr(8745)", "chr(65024)">>>>,
      <<"caret;", <<"chr(8257)">>>>, <<"caron;", <<"chr(711)">>>>,
      <<"ccaps;", <<"chr(10829)">>>>, <<"ccaron;", <<"chr(269)">>>>,
      <<"ccedil", <<"chr(231)">>>>, <<"ccedil;", <<"chr(231)">>>>,
      <<"ccirc;", <<"chr(265)">>>>, <<"ccups;", <<"chr(10828)">>>>,
      <<"ccupssm;", <<"chr(10832)">>>>, <<"cdot;", <<"chr(267)">>>>,
      <<"cedil", <<"chr(184)">>>>, <<"cedil;", <<"chr(184)">>>>,
      <<"cemptyv;", <<"chr(10674)">>>>, <<"cent", <<"chr(162)">>>>,
      <<"cent;", <<"chr(162)">>>>, <<"centerdot;", <<"chr(183)">>>>,
      <<"cfr;", <<"chr(120096)">>>>, <<"chcy;", <<"chr(1095)">>>>,
      <<"check;", <<"chr(10003)">>>>, <<"checkmark;", <<"chr(10003)">>>>,
      <<"chi;", <<"chr(967)">>>>, <<"cir;", <<"chr(9675)">>>>,
      <<"cirE;", <<"chr(10691)">>>>, <<"circ;", <<"chr(710)">>>>,
      <<"circeq;", <<"chr(8791)">>>>, <<"circlearrowleft;", <<"chr(8634)">>>>,
      <<"circlearrowright;", <<"chr(8635)">>>>,
      <<"circledR;", <<"chr(174)">>>>, <<"circledS;", <<"chr(9416)">>>>,
      <<"circledast;", <<"chr(8859)">>>>, <<"circledcirc;", <<"chr(8858)">>>>,
      <<"circleddash;", <<"chr(8861)">>>>, <<"cire;", <<"chr(8791)">>>>,
      <<"cirfnint;", <<"chr(10768)">>>>, <<"cirmid;", <<"chr(10991)">>>>,
      <<"cirscir;", <<"chr(10690)">>>>, <<"clubs;", <<"chr(9827)">>>>,
      <<"clubsuit;", <<"chr(9827)">>>>, <<"colon;", <<":">>>>,
      <<"colone;", <<"chr(8788)">>>>, <<"coloneq;", <<"chr(8788)">>>>,
      <<"comma;", <<",">>>>, <<"commat;", <<"@">>>>,
      <<"comp;", <<"chr(8705)">>>>, <<"compfn;", <<"chr(8728)">>>>,
      <<"complement;", <<"chr(8705)">>>>, <<"complexes;", <<"chr(8450)">>>>,
      <<"cong;", <<"chr(8773)">>>>, <<"congdot;", <<"chr(10861)">>>>,
      <<"conint;", <<"chr(8750)">>>>, <<"copf;", <<"chr(120148)">>>>,
      <<"coprod;", <<"chr(8720)">>>>, <<"copy", <<"chr(169)">>>>,
      <<"copy;", <<"chr(169)">>>>, <<"copysr;", <<"chr(8471)">>>>,
      <<"crarr;", <<"chr(8629)">>>>, <<"cross;", <<"chr(10007)">>>>,
      <<"cscr;", <<"chr(119992)">>>>, <<"csub;", <<"chr(10959)">>>>,
      <<"csube;", <<"chr(10961)">>>>, <<"csup;", <<"chr(10960)">>>>,
      <<"csupe;", <<"chr(10962)">>>>, <<"ctdot;", <<"chr(8943)">>>>,
      <<"cudarrl;", <<"chr(10552)">>>>, <<"cudarrr;", <<"chr(10549)">>>>,
      <<"cuepr;", <<"chr(8926)">>>>, <<"cuesc;", <<"chr(8927)">>>>,
      <<"cularr;", <<"chr(8630)">>>>, <<"cularrp;", <<"chr(10557)">>>>,
      <<"cup;", <<"chr(8746)">>>>, <<"cupbrcap;", <<"chr(10824)">>>>,
      <<"cupcap;", <<"chr(10822)">>>>, <<"cupcup;", <<"chr(10826)">>>>,
      <<"cupdot;", <<"chr(8845)">>>>, <<"cupor;", <<"chr(10821)">>>>,
      <<"cups;", <<"chr(8746)", "chr(65024)">>>>,
      <<"curarr;", <<"chr(8631)">>>>, <<"curarrm;", <<"chr(10556)">>>>,
      <<"curlyeqprec;", <<"chr(8926)">>>>,
      <<"curlyeqsucc;", <<"chr(8927)">>>>, <<"curlyvee;", <<"chr(8910)">>>>,
      <<"curlywedge;", <<"chr(8911)">>>>, <<"curren", <<"chr(164)">>>>,
      <<"curren;", <<"chr(164)">>>>, <<"curvearrowleft;", <<"chr(8630)">>>>,
      <<"curvearrowright;", <<"chr(8631)">>>>, <<"cuvee;", <<"chr(8910)">>>>,
      <<"cuwed;", <<"chr(8911)">>>>, <<"cwconint;", <<"chr(8754)">>>>,
      <<"cwint;", <<"chr(8753)">>>>, <<"cylcty;", <<"chr(9005)">>>>,
      <<"dArr;", <<"chr(8659)">>>>, <<"dHar;", <<"chr(10597)">>>>,
      <<"dagger;", <<"chr(8224)">>>>, <<"daleth;", <<"chr(8504)">>>>,
      <<"darr;", <<"chr(8595)">>>>, <<"dash;", <<"chr(8208)">>>>,
      <<"dashv;", <<"chr(8867)">>>>, <<"dbkarow;", <<"chr(10511)">>>>,
      <<"dblac;", <<"chr(733)">>>>, <<"dcaron;", <<"chr(271)">>>>,
      <<"dcy;", <<"chr(1076)">>>>, <<"dd;", <<"chr(8518)">>>>,
      <<"ddagger;", <<"chr(8225)">>>>, <<"ddarr;", <<"chr(8650)">>>>,
      <<"ddotseq;", <<"chr(10871)">>>>, <<"deg", <<"chr(176)">>>>,
      <<"deg;", <<"chr(176)">>>>, <<"delta;", <<"chr(948)">>>>,
      <<"demptyv;", <<"chr(10673)">>>>, <<"dfisht;", <<"chr(10623)">>>>,
      <<"dfr;", <<"chr(120097)">>>>, <<"dharl;", <<"chr(8643)">>>>,
      <<"dharr;", <<"chr(8642)">>>>, <<"diam;", <<"chr(8900)">>>>,
      <<"diamond;", <<"chr(8900)">>>>, <<"diamondsuit;", <<"chr(9830)">>>>,
      <<"diams;", <<"chr(9830)">>>>, <<"die;", <<"chr(168)">>>>,
      <<"digamma;", <<"chr(989)">>>>, <<"disin;", <<"chr(8946)">>>>,
      <<"div;", <<"chr(247)">>>>, <<"divide", <<"chr(247)">>>>,
      <<"divide;", <<"chr(247)">>>>, <<"divideontimes;", <<"chr(8903)">>>>,
      <<"divonx;", <<"chr(8903)">>>>, <<"djcy;", <<"chr(1106)">>>>,
      <<"dlcorn;", <<"chr(8990)">>>>, <<"dlcrop;", <<"chr(8973)">>>>,
      <<"dollar;", <<"$">>>>, <<"dopf;", <<"chr(120149)">>>>,
      <<"dot;", <<"chr(729)">>>>, <<"doteq;", <<"chr(8784)">>>>,
      <<"doteqdot;", <<"chr(8785)">>>>, <<"dotminus;", <<"chr(8760)">>>>,
      <<"dotplus;", <<"chr(8724)">>>>, <<"dotsquare;", <<"chr(8865)">>>>,
      <<"doublebarwedge;", <<"chr(8966)">>>>,
      <<"downarrow;", <<"chr(8595)">>>>,
      <<"downdownarrows;", <<"chr(8650)">>>>,
      <<"downharpoonleft;", <<"chr(8643)">>>>,
      <<"downharpoonright;", <<"chr(8642)">>>>,
      <<"drbkarow;", <<"chr(10512)">>>>, <<"drcorn;", <<"chr(8991)">>>>,
      <<"drcrop;", <<"chr(8972)">>>>, <<"dscr;", <<"chr(119993)">>>>,
      <<"dscy;", <<"chr(1109)">>>>, <<"dsol;", <<"chr(10742)">>>>,
      <<"dstrok;", <<"chr(273)">>>>, <<"dtdot;", <<"chr(8945)">>>>,
      <<"dtri;", <<"chr(9663)">>>>, <<"dtrif;", <<"chr(9662)">>>>,
      <<"duarr;", <<"chr(8693)">>>>, <<"duhar;", <<"chr(10607)">>>>,
      <<"dwangle;", <<"chr(10662)">>>>, <<"dzcy;", <<"chr(1119)">>>>,
      <<"dzigrarr;", <<"chr(10239)">>>>, <<"eDDot;", <<"chr(10871)">>>>,
      <<"eDot;", <<"chr(8785)">>>>, <<"eacute", <<"chr(233)">>>>,
      <<"eacute;", <<"chr(233)">>>>, <<"easter;", <<"chr(10862)">>>>,
      <<"ecaron;", <<"chr(283)">>>>, <<"ecir;", <<"chr(8790)">>>>,
      <<"ecirc", <<"chr(234)">>>>, <<"ecirc;", <<"chr(234)">>>>,
      <<"ecolon;", <<"chr(8789)">>>>, <<"ecy;", <<"chr(1101)">>>>,
      <<"edot;", <<"chr(279)">>>>, <<"ee;", <<"chr(8519)">>>>,
      <<"efDot;", <<"chr(8786)">>>>, <<"efr;", <<"chr(120098)">>>>,
      <<"eg;", <<"chr(10906)">>>>, <<"egrave", <<"chr(232)">>>>,
      <<"egrave;", <<"chr(232)">>>>, <<"egs;", <<"chr(10902)">>>>,
      <<"egsdot;", <<"chr(10904)">>>>, <<"el;", <<"chr(10905)">>>>,
      <<"elinters;", <<"chr(9191)">>>>, <<"ell;", <<"chr(8467)">>>>,
      <<"els;", <<"chr(10901)">>>>, <<"elsdot;", <<"chr(10903)">>>>,
      <<"emacr;", <<"chr(275)">>>>, <<"empty;", <<"chr(8709)">>>>,
      <<"emptyset;", <<"chr(8709)">>>>, <<"emptyv;", <<"chr(8709)">>>>,
      <<"emsp13;", <<"chr(8196)">>>>, <<"emsp14;", <<"chr(8197)">>>>,
      <<"emsp;", <<"chr(8195)">>>>, <<"eng;", <<"chr(331)">>>>,
      <<"ensp;", <<"chr(8194)">>>>, <<"eogon;", <<"chr(281)">>>>,
      <<"eopf;", <<"chr(120150)">>>>, <<"epar;", <<"chr(8917)">>>>,
      <<"eparsl;", <<"chr(10723)">>>>, <<"eplus;", <<"chr(10865)">>>>,
      <<"epsi;", <<"chr(949)">>>>, <<"epsilon;", <<"chr(949)">>>>,
      <<"epsiv;", <<"chr(1013)">>>>, <<"eqcirc;", <<"chr(8790)">>>>,
      <<"eqcolon;", <<"chr(8789)">>>>, <<"eqsim;", <<"chr(8770)">>>>,
      <<"eqslantgtr;", <<"chr(10902)">>>>,
      <<"eqslantless;", <<"chr(10901)">>>>, <<"equals;", <<"=">>>>,
      <<"equest;", <<"chr(8799)">>>>, <<"equiv;", <<"chr(8801)">>>>,
      <<"equivDD;", <<"chr(10872)">>>>, <<"eqvparsl;", <<"chr(10725)">>>>,
      <<"erDot;", <<"chr(8787)">>>>, <<"erarr;", <<"chr(10609)">>>>,
      <<"escr;", <<"chr(8495)">>>>, <<"esdot;", <<"chr(8784)">>>>,
      <<"esim;", <<"chr(8770)">>>>, <<"eta;", <<"chr(951)">>>>,
      <<"eth", <<"chr(240)">>>>, <<"eth;", <<"chr(240)">>>>,
      <<"euml", <<"chr(235)">>>>, <<"euml;", <<"chr(235)">>>>,
      <<"euro;", <<"chr(8364)">>>>, <<"excl;", <<"!">>>>,
      <<"exist;", <<"chr(8707)">>>>, <<"expectation;", <<"chr(8496)">>>>,
      <<"exponentiale;", <<"chr(8519)">>>>,
      <<"fallingdotseq;", <<"chr(8786)">>>>, <<"fcy;", <<"chr(1092)">>>>,
      <<"female;", <<"chr(9792)">>>>, <<"ffilig;", <<"chr(64259)">>>>,
      <<"fflig;", <<"chr(64256)">>>>, <<"ffllig;", <<"chr(64260)">>>>,
      <<"ffr;", <<"chr(120099)">>>>, <<"filig;", <<"chr(64257)">>>>,
      <<"fjlig;", <<"f", "j">>>>, <<"flat;", <<"chr(9837)">>>>,
      <<"fllig;", <<"chr(64258)">>>>, <<"fltns;", <<"chr(9649)">>>>,
      <<"fnof;", <<"chr(402)">>>>, <<"fopf;", <<"chr(120151)">>>>,
      <<"forall;", <<"chr(8704)">>>>, <<"fork;", <<"chr(8916)">>>>,
      <<"forkv;", <<"chr(10969)">>>>, <<"fpartint;", <<"chr(10765)">>>>,
      <<"frac12", <<"chr(189)">>>>, <<"frac12;", <<"chr(189)">>>>,
      <<"frac13;", <<"chr(8531)">>>>, <<"frac14", <<"chr(188)">>>>,
      <<"frac14;", <<"chr(188)">>>>, <<"frac15;", <<"chr(8533)">>>>,
      <<"frac16;", <<"chr(8537)">>>>, <<"frac18;", <<"chr(8539)">>>>,
      <<"frac23;", <<"chr(8532)">>>>, <<"frac25;", <<"chr(8534)">>>>,
      <<"frac34", <<"chr(190)">>>>, <<"frac34;", <<"chr(190)">>>>,
      <<"frac35;", <<"chr(8535)">>>>, <<"frac38;", <<"chr(8540)">>>>,
      <<"frac45;", <<"chr(8536)">>>>, <<"frac56;", <<"chr(8538)">>>>,
      <<"frac58;", <<"chr(8541)">>>>, <<"frac78;", <<"chr(8542)">>>>,
      <<"frasl;", <<"chr(8260)">>>>, <<"frown;", <<"chr(8994)">>>>,
      <<"fscr;", <<"chr(119995)">>>>, <<"gE;", <<"chr(8807)">>>>,
      <<"gEl;", <<"chr(10892)">>>>, <<"gacute;", <<"chr(501)">>>>,
      <<"gamma;", <<"chr(947)">>>>, <<"gammad;", <<"chr(989)">>>>,
      <<"gap;", <<"chr(10886)">>>>, <<"gbreve;", <<"chr(287)">>>>,
      <<"gcirc;", <<"chr(285)">>>>, <<"gcy;", <<"chr(1075)">>>>,
      <<"gdot;", <<"chr(289)">>>>, <<"ge;", <<"chr(8805)">>>>,
      <<"gel;", <<"chr(8923)">>>>, <<"geq;", <<"chr(8805)">>>>,
      <<"geqq;", <<"chr(8807)">>>>, <<"geqslant;", <<"chr(10878)">>>>,
      <<"ges;", <<"chr(10878)">>>>, <<"gescc;", <<"chr(10921)">>>>,
      <<"gesdot;", <<"chr(10880)">>>>, <<"gesdoto;", <<"chr(10882)">>>>,
      <<"gesdotol;", <<"chr(10884)">>>>,
      <<"gesl;", <<"chr(8923)", "chr(65024)">>>>,
      <<"gesles;", <<"chr(10900)">>>>, <<"gfr;", <<"chr(120100)">>>>,
      <<"gg;", <<"chr(8811)">>>>, <<"ggg;", <<"chr(8921)">>>>,
      <<"gimel;", <<"chr(8503)">>>>, <<"gjcy;", <<"chr(1107)">>>>,
      <<"gl;", <<"chr(8823)">>>>, <<"glE;", <<"chr(10898)">>>>,
      <<"gla;", <<"chr(10917)">>>>, <<"glj;", <<"chr(10916)">>>>,
      <<"gnE;", <<"chr(8809)">>>>, <<"gnap;", <<"chr(10890)">>>>,
      <<"gnapprox;", <<"chr(10890)">>>>, <<"gne;", <<"chr(10888)">>>>,
      <<"gneq;", <<"chr(10888)">>>>, <<"gneqq;", <<"chr(8809)">>>>,
      <<"gnsim;", <<"chr(8935)">>>>, <<"gopf;", <<"chr(120152)">>>>,
      <<"grave;", <<"chr(96)">>>>, <<"gscr;", <<"chr(8458)">>>>,
      <<"gsim;", <<"chr(8819)">>>>, <<"gsime;", <<"chr(10894)">>>>,
      <<"gsiml;", <<"chr(10896)">>>>, <<"gt", <<">">>>>, <<"gt;", <<">">>>>,
      <<"gtcc;", <<"chr(10919)">>>>, <<"gtcir;", <<"chr(10874)">>>>,
      <<"gtdot;", <<"chr(8919)">>>>, <<"gtlPar;", <<"chr(10645)">>>>,
      <<"gtquest;", <<"chr(10876)">>>>, <<"gtrapprox;", <<"chr(10886)">>>>,
      <<"gtrarr;", <<"chr(10616)">>>>, <<"gtrdot;", <<"chr(8919)">>>>,
      <<"gtreqless;", <<"chr(8923)">>>>, <<"gtreqqless;", <<"chr(10892)">>>>,
      <<"gtrless;", <<"chr(8823)">>>>, <<"gtrsim;", <<"chr(8819)">>>>,
      <<"gvertneqq;", <<"chr(8809)", "chr(65024)">>>>,
      <<"gvnE;", <<"chr(8809)", "chr(65024)">>>>,
      <<"hArr;", <<"chr(8660)">>>>, <<"hairsp;", <<"chr(8202)">>>>,
      <<"half;", <<"chr(189)">>>>, <<"hamilt;", <<"chr(8459)">>>>,
      <<"hardcy;", <<"chr(1098)">>>>, <<"harr;", <<"chr(8596)">>>>,
      <<"harrcir;", <<"chr(10568)">>>>, <<"harrw;", <<"chr(8621)">>>>,
      <<"hbar;", <<"chr(8463)">>>>, <<"hcirc;", <<"chr(293)">>>>,
      <<"hearts;", <<"chr(9829)">>>>, <<"heartsuit;", <<"chr(9829)">>>>,
      <<"hellip;", <<"chr(8230)">>>>, <<"hercon;", <<"chr(8889)">>>>,
      <<"hfr;", <<"chr(120101)">>>>, <<"hksearow;", <<"chr(10533)">>>>,
      <<"hkswarow;", <<"chr(10534)">>>>, <<"hoarr;", <<"chr(8703)">>>>,
      <<"homtht;", <<"chr(8763)">>>>, <<"hookleftarrow;", <<"chr(8617)">>>>,
      <<"hookrightarrow;", <<"chr(8618)">>>>, <<"hopf;", <<"chr(120153)">>>>,
      <<"horbar;", <<"chr(8213)">>>>, <<"hscr;", <<"chr(119997)">>>>,
      <<"hslash;", <<"chr(8463)">>>>, <<"hstrok;", <<"chr(295)">>>>,
      <<"hybull;", <<"chr(8259)">>>>, <<"hyphen;", <<"chr(8208)">>>>,
      <<"iacute", <<"chr(237)">>>>, <<"iacute;", <<"chr(237)">>>>,
      <<"ic;", <<"chr(8291)">>>>, <<"icirc", <<"chr(238)">>>>,
      <<"icirc;", <<"chr(238)">>>>, <<"icy;", <<"chr(1080)">>>>,
      <<"iecy;", <<"chr(1077)">>>>, <<"iexcl", <<"chr(161)">>>>,
      <<"iexcl;", <<"chr(161)">>>>, <<"iff;", <<"chr(8660)">>>>,
      <<"ifr;", <<"chr(120102)">>>>, <<"igrave", <<"chr(236)">>>>,
      <<"igrave;", <<"chr(236)">>>>, <<"ii;", <<"chr(8520)">>>>,
      <<"iiiint;", <<"chr(10764)">>>>, <<"iiint;", <<"chr(8749)">>>>,
      <<"iinfin;", <<"chr(10716)">>>>, <<"iiota;", <<"chr(8489)">>>>,
      <<"ijlig;", <<"chr(307)">>>>, <<"imacr;", <<"chr(299)">>>>,
      <<"image;", <<"chr(8465)">>>>, <<"imagline;", <<"chr(8464)">>>>,
      <<"imagpart;", <<"chr(8465)">>>>, <<"imath;", <<"chr(305)">>>>,
      <<"imof;", <<"chr(8887)">>>>, <<"imped;", <<"chr(437)">>>>,
      <<"in;", <<"chr(8712)">>>>, <<"incare;", <<"chr(8453)">>>>,
      <<"infin;", <<"chr(8734)">>>>, <<"infintie;", <<"chr(10717)">>>>,
      <<"inodot;", <<"chr(305)">>>>, <<"int;", <<"chr(8747)">>>>,
      <<"intcal;", <<"chr(8890)">>>>, <<"integers;", <<"chr(8484)">>>>,
      <<"intercal;", <<"chr(8890)">>>>, <<"intlarhk;", <<"chr(10775)">>>>,
      <<"intprod;", <<"chr(10812)">>>>, <<"iocy;", <<"chr(1105)">>>>,
      <<"iogon;", <<"chr(303)">>>>, <<"iopf;", <<"chr(120154)">>>>,
      <<"iota;", <<"chr(953)">>>>, <<"iprod;", <<"chr(10812)">>>>,
      <<"iquest", <<"chr(191)">>>>, <<"iquest;", <<"chr(191)">>>>,
      <<"iscr;", <<"chr(119998)">>>>, <<"isin;", <<"chr(8712)">>>>,
      <<"isinE;", <<"chr(8953)">>>>, <<"isindot;", <<"chr(8949)">>>>,
      <<"isins;", <<"chr(8948)">>>>, <<"isinsv;", <<"chr(8947)">>>>,
      <<"isinv;", <<"chr(8712)">>>>, <<"it;", <<"chr(8290)">>>>,
      <<"itilde;", <<"chr(297)">>>>, <<"iukcy;", <<"chr(1110)">>>>,
      <<"iuml", <<"chr(239)">>>>, <<"iuml;", <<"chr(239)">>>>,
      <<"jcirc;", <<"chr(309)">>>>, <<"jcy;", <<"chr(1081)">>>>,
      <<"jfr;", <<"chr(120103)">>>>, <<"jmath;", <<"chr(567)">>>>,
      <<"jopf;", <<"chr(120155)">>>>, <<"jscr;", <<"chr(119999)">>>>,
      <<"jsercy;", <<"chr(1112)">>>>, <<"jukcy;", <<"chr(1108)">>>>,
      <<"kappa;", <<"chr(954)">>>>, <<"kappav;", <<"chr(1008)">>>>,
      <<"kcedil;", <<"chr(311)">>>>, <<"kcy;", <<"chr(1082)">>>>,
      <<"kfr;", <<"chr(120104)">>>>, <<"kgreen;", <<"chr(312)">>>>,
      <<"khcy;", <<"chr(1093)">>>>, <<"kjcy;", <<"chr(1116)">>>>,
      <<"kopf;", <<"chr(120156)">>>>, <<"kscr;", <<"chr(120000)">>>>,
      <<"lAarr;", <<"chr(8666)">>>>, <<"lArr;", <<"chr(8656)">>>>,
      <<"lAtail;", <<"chr(10523)">>>>, <<"lBarr;", <<"chr(10510)">>>>,
      <<"lE;", <<"chr(8806)">>>>, <<"lEg;", <<"chr(10891)">>>>,
      <<"lHar;", <<"chr(10594)">>>>, <<"lacute;", <<"chr(314)">>>>,
      <<"laemptyv;", <<"chr(10676)">>>>, <<"lagran;", <<"chr(8466)">>>>,
      <<"lambda;", <<"chr(955)">>>>, <<"lang;", <<"chr(10216)">>>>,
      <<"langd;", <<"chr(10641)">>>>, <<"langle;", <<"chr(10216)">>>>,
      <<"lap;", <<"chr(10885)">>>>, <<"laquo", <<"chr(171)">>>>,
      <<"laquo;", <<"chr(171)">>>>, <<"larr;", <<"chr(8592)">>>>,
      <<"larrb;", <<"chr(8676)">>>>, <<"larrbfs;", <<"chr(10527)">>>>,
      <<"larrfs;", <<"chr(10525)">>>>, <<"larrhk;", <<"chr(8617)">>>>,
      <<"larrlp;", <<"chr(8619)">>>>, <<"larrpl;", <<"chr(10553)">>>>,
      <<"larrsim;", <<"chr(10611)">>>>, <<"larrtl;", <<"chr(8610)">>>>,
      <<"lat;", <<"chr(10923)">>>>, <<"latail;", <<"chr(10521)">>>>,
      <<"late;", <<"chr(10925)">>>>,
      <<"lates;", <<"chr(10925)", "chr(65024)">>>>,
      <<"lbarr;", <<"chr(10508)">>>>, <<"lbbrk;", <<"chr(10098)">>>>,
      <<"lbrace;", <<"{">>>>, <<"lbrack;", <<"[">>>>,
      <<"lbrke;", <<"chr(10635)">>>>, <<"lbrksld;", <<"chr(10639)">>>>,
      <<"lbrkslu;", <<"chr(10637)">>>>, <<"lcaron;", <<"chr(318)">>>>,
      <<"lcedil;", <<"chr(316)">>>>, <<"lceil;", <<"chr(8968)">>>>,
      <<"lcub;", <<"{">>>>, <<"lcy;", <<"chr(1083)">>>>,
      <<"ldca;", <<"chr(10550)">>>>, <<"ldquo;", <<"chr(8220)">>>>,
      <<"ldquor;", <<"chr(8222)">>>>, <<"ldrdhar;", <<"chr(10599)">>>>,
      <<"ldrushar;", <<"chr(10571)">>>>, <<"ldsh;", <<"chr(8626)">>>>,
      <<"le;", <<"chr(8804)">>>>, <<"leftarrow;", <<"chr(8592)">>>>,
      <<"leftarrowtail;", <<"chr(8610)">>>>,
      <<"leftharpoondown;", <<"chr(8637)">>>>,
      <<"leftharpoonup;", <<"chr(8636)">>>>,
      <<"leftleftarrows;", <<"chr(8647)">>>>,
      <<"leftrightarrow;", <<"chr(8596)">>>>,
      <<"leftrightarrows;", <<"chr(8646)">>>>,
      <<"leftrightharpoons;", <<"chr(8651)">>>>,
      <<"leftrightsquigarrow;", <<"chr(8621)">>>>,
      <<"leftthreetimes;", <<"chr(8907)">>>>, <<"leg;", <<"chr(8922)">>>>,
      <<"leq;", <<"chr(8804)">>>>, <<"leqq;", <<"chr(8806)">>>>,
      <<"leqslant;", <<"chr(10877)">>>>, <<"les;", <<"chr(10877)">>>>,
      <<"lescc;", <<"chr(10920)">>>>, <<"lesdot;", <<"chr(10879)">>>>,
      <<"lesdoto;", <<"chr(10881)">>>>, <<"lesdotor;", <<"chr(10883)">>>>,
      <<"lesg;", <<"chr(8922)", "chr(65024)">>>>,
      <<"lesges;", <<"chr(10899)">>>>, <<"lessapprox;", <<"chr(10885)">>>>,
      <<"lessdot;", <<"chr(8918)">>>>, <<"lesseqgtr;", <<"chr(8922)">>>>,
      <<"lesseqqgtr;", <<"chr(10891)">>>>, <<"lessgtr;", <<"chr(8822)">>>>,
      <<"lesssim;", <<"chr(8818)">>>>, <<"lfisht;", <<"chr(10620)">>>>,
      <<"lfloor;", <<"chr(8970)">>>>, <<"lfr;", <<"chr(120105)">>>>,
      <<"lg;", <<"chr(8822)">>>>, <<"lgE;", <<"chr(10897)">>>>,
      <<"lhard;", <<"chr(8637)">>>>, <<"lharu;", <<"chr(8636)">>>>,
      <<"lharul;", <<"chr(10602)">>>>, <<"lhblk;", <<"chr(9604)">>>>,
      <<"ljcy;", <<"chr(1113)">>>>, <<"ll;", <<"chr(8810)">>>>,
      <<"llarr;", <<"chr(8647)">>>>, <<"llcorner;", <<"chr(8990)">>>>,
      <<"llhard;", <<"chr(10603)">>>>, <<"lltri;", <<"chr(9722)">>>>,
      <<"lmidot;", <<"chr(320)">>>>, <<"lmoust;", <<"chr(9136)">>>>,
      <<"lmoustache;", <<"chr(9136)">>>>, <<"lnE;", <<"chr(8808)">>>>,
      <<"lnap;", <<"chr(10889)">>>>, <<"lnapprox;", <<"chr(10889)">>>>,
      <<"lne;", <<"chr(10887)">>>>, <<"lneq;", <<"chr(10887)">>>>,
      <<"lneqq;", <<"chr(8808)">>>>, <<"lnsim;", <<"chr(8934)">>>>,
      <<"loang;", <<"chr(10220)">>>>, <<"loarr;", <<"chr(8701)">>>>,
      <<"lobrk;", <<"chr(10214)">>>>, <<"longleftarrow;", <<"chr(10229)">>>>,
      <<"longleftrightarrow;", <<"chr(10231)">>>>,
      <<"longmapsto;", <<"chr(10236)">>>>,
      <<"longrightarrow;", <<"chr(10230)">>>>,
      <<"looparrowleft;", <<"chr(8619)">>>>,
      <<"looparrowright;", <<"chr(8620)">>>>, <<"lopar;", <<"chr(10629)">>>>,
      <<"lopf;", <<"chr(120157)">>>>, <<"loplus;", <<"chr(10797)">>>>,
      <<"lotimes;", <<"chr(10804)">>>>, <<"lowast;", <<"chr(8727)">>>>,
      <<"lowbar;", <<"_">>>>, <<"loz;", <<"chr(9674)">>>>,
      <<"lozenge;", <<"chr(9674)">>>>, <<"lozf;", <<"chr(10731)">>>>,
      <<"lpar;", <<"(">>>>, <<"lparlt;", <<"chr(10643)">>>>,
      <<"lrarr;", <<"chr(8646)">>>>, <<"lrcorner;", <<"chr(8991)">>>>,
      <<"lrhar;", <<"chr(8651)">>>>, <<"lrhard;", <<"chr(10605)">>>>,
      <<"lrm;", <<"chr(8206)">>>>, <<"lrtri;", <<"chr(8895)">>>>,
      <<"lsaquo;", <<"chr(8249)">>>>, <<"lscr;", <<"chr(120001)">>>>,
      <<"lsh;", <<"chr(8624)">>>>, <<"lsim;", <<"chr(8818)">>>>,
      <<"lsime;", <<"chr(10893)">>>>, <<"lsimg;", <<"chr(10895)">>>>,
      <<"lsqb;", <<"[">>>>, <<"lsquo;", <<"chr(8216)">>>>,
      <<"lsquor;", <<"chr(8218)">>>>, <<"lstrok;", <<"chr(322)">>>>,
      <<"lt", <<"<">>>>, <<"lt;", <<"<">>>>, <<"ltcc;", <<"chr(10918)">>>>,
      <<"ltcir;", <<"chr(10873)">>>>, <<"ltdot;", <<"chr(8918)">>>>,
      <<"lthree;", <<"chr(8907)">>>>, <<"ltimes;", <<"chr(8905)">>>>,
      <<"ltlarr;", <<"chr(10614)">>>>, <<"ltquest;", <<"chr(10875)">>>>,
      <<"ltrPar;", <<"chr(10646)">>>>, <<"ltri;", <<"chr(9667)">>>>,
      <<"ltrie;", <<"chr(8884)">>>>, <<"ltrif;", <<"chr(9666)">>>>,
      <<"lurdshar;", <<"chr(10570)">>>>, <<"luruhar;", <<"chr(10598)">>>>,
      <<"lvertneqq;", <<"chr(8808)", "chr(65024)">>>>,
      <<"lvnE;", <<"chr(8808)", "chr(65024)">>>>,
      <<"mDDot;", <<"chr(8762)">>>>, <<"macr", <<"chr(175)">>>>,
      <<"macr;", <<"chr(175)">>>>, <<"male;", <<"chr(9794)">>>>,
      <<"malt;", <<"chr(10016)">>>>, <<"maltese;", <<"chr(10016)">>>>,
      <<"map;", <<"chr(8614)">>>>, <<"mapsto;", <<"chr(8614)">>>>,
      <<"mapstodown;", <<"chr(8615)">>>>, <<"mapstoleft;", <<"chr(8612)">>>>,
      <<"mapstoup;", <<"chr(8613)">>>>, <<"marker;", <<"chr(9646)">>>>,
      <<"mcomma;", <<"chr(10793)">>>>, <<"mcy;", <<"chr(1084)">>>>,
      <<"mdash;", <<"chr(8212)">>>>, <<"measuredangle;", <<"chr(8737)">>>>,
      <<"mfr;", <<"chr(120106)">>>>, <<"mho;", <<"chr(8487)">>>>,
      <<"micro", <<"chr(181)">>>>, <<"micro;", <<"chr(181)">>>>,
      <<"mid;", <<"chr(8739)">>>>, <<"midast;", <<"*">>>>,
      <<"midcir;", <<"chr(10992)">>>>, <<"middot", <<"chr(183)">>>>,
      <<"middot;", <<"chr(183)">>>>, <<"minus;", <<"chr(8722)">>>>,
      <<"minusb;", <<"chr(8863)">>>>, <<"minusd;", <<"chr(8760)">>>>,
      <<"minusdu;", <<"chr(10794)">>>>, <<"mlcp;", <<"chr(10971)">>>>,
      <<"mldr;", <<"chr(8230)">>>>, <<"mnplus;", <<"chr(8723)">>>>,
      <<"models;", <<"chr(8871)">>>>, <<"mopf;", <<"chr(120158)">>>>,
      <<"mp;", <<"chr(8723)">>>>, <<"mscr;", <<"chr(120002)">>>>,
      <<"mstpos;", <<"chr(8766)">>>>, <<"mu;", <<"chr(956)">>>>,
      <<"multimap;", <<"chr(8888)">>>>, <<"mumap;", <<"chr(8888)">>>>,
      <<"nGg;", <<"chr(8921)", "chr(824)">>>>,
      <<"nGt;", <<"chr(8811)", "chr(8402)">>>>,
      <<"nGtv;", <<"chr(8811)", "chr(824)">>>>,
      <<"nLeftarrow;", <<"chr(8653)">>>>,
      <<"nLeftrightarrow;", <<"chr(8654)">>>>,
      <<"nLl;", <<"chr(8920)", "chr(824)">>>>,
      <<"nLt;", <<"chr(8810)", "chr(8402)">>>>,
      <<"nLtv;", <<"chr(8810)", "chr(824)">>>>,
      <<"nRightarrow;", <<"chr(8655)">>>>, <<"nVDash;", <<"chr(8879)">>>>,
      <<"nVdash;", <<"chr(8878)">>>>, <<"nabla;", <<"chr(8711)">>>>,
      <<"nacute;", <<"chr(324)">>>>,
      <<"nang;", <<"chr(8736)", "chr(8402)">>>>, <<"nap;", <<"chr(8777)">>>>,
      <<"napE;", <<"chr(10864)", "chr(824)">>>>,
      <<"napid;", <<"chr(8779)", "chr(824)">>>>, <<"napos;", <<"chr(329)">>>>,
      <<"napprox;", <<"chr(8777)">>>>, <<"natur;", <<"chr(9838)">>>>,
      <<"natural;", <<"chr(9838)">>>>, <<"naturals;", <<"chr(8469)">>>>,
      <<"nbsp", <<"chr(160)">>>>, <<"nbsp;", <<"chr(160)">>>>,
      <<"nbump;", <<"chr(8782)", "chr(824)">>>>,
      <<"nbumpe;", <<"chr(8783)", "chr(824)">>>>,
      <<"ncap;", <<"chr(10819)">>>>, <<"ncaron;", <<"chr(328)">>>>,
      <<"ncedil;", <<"chr(326)">>>>, <<"ncong;", <<"chr(8775)">>>>,
      <<"ncongdot;", <<"chr(10861)", "chr(824)">>>>,
      <<"ncup;", <<"chr(10818)">>>>, <<"ncy;", <<"chr(1085)">>>>,
      <<"ndash;", <<"chr(8211)">>>>, <<"ne;", <<"chr(8800)">>>>,
      <<"neArr;", <<"chr(8663)">>>>, <<"nearhk;", <<"chr(10532)">>>>,
      <<"nearr;", <<"chr(8599)">>>>, <<"nearrow;", <<"chr(8599)">>>>,
      <<"nedot;", <<"chr(8784)", "chr(824)">>>>,
      <<"nequiv;", <<"chr(8802)">>>>, <<"nesear;", <<"chr(10536)">>>>,
      <<"nesim;", <<"chr(8770)", "chr(824)">>>>,
      <<"nexist;", <<"chr(8708)">>>>, <<"nexists;", <<"chr(8708)">>>>,
      <<"nfr;", <<"chr(120107)">>>>, <<"ngE;", <<"chr(8807)", "chr(824)">>>>,
      <<"nge;", <<"chr(8817)">>>>, <<"ngeq;", <<"chr(8817)">>>>,
      <<"ngeqq;", <<"chr(8807)", "chr(824)">>>>,
      <<"ngeqslant;", <<"chr(10878)", "chr(824)">>>>,
      <<"nges;", <<"chr(10878)", "chr(824)">>>>,
      <<"ngsim;", <<"chr(8821)">>>>, <<"ngt;", <<"chr(8815)">>>>,
      <<"ngtr;", <<"chr(8815)">>>>, <<"nhArr;", <<"chr(8654)">>>>,
      <<"nharr;", <<"chr(8622)">>>>, <<"nhpar;", <<"chr(10994)">>>>,
      <<"ni;", <<"chr(8715)">>>>, <<"nis;", <<"chr(8956)">>>>,
      <<"nisd;", <<"chr(8954)">>>>, <<"niv;", <<"chr(8715)">>>>,
      <<"njcy;", <<"chr(1114)">>>>, <<"nlArr;", <<"chr(8653)">>>>,
      <<"nlE;", <<"chr(8806)", "chr(824)">>>>, <<"nlarr;", <<"chr(8602)">>>>,
      <<"nldr;", <<"chr(8229)">>>>, <<"nle;", <<"chr(8816)">>>>,
      <<"nleftarrow;", <<"chr(8602)">>>>,
      <<"nleftrightarrow;", <<"chr(8622)">>>>, <<"nleq;", <<"chr(8816)">>>>,
      <<"nleqq;", <<"chr(8806)", "chr(824)">>>>,
      <<"nleqslant;", <<"chr(10877)", "chr(824)">>>>,
      <<"nles;", <<"chr(10877)", "chr(824)">>>>,
      <<"nless;", <<"chr(8814)">>>>, <<"nlsim;", <<"chr(8820)">>>>,
      <<"nlt;", <<"chr(8814)">>>>, <<"nltri;", <<"chr(8938)">>>>,
      <<"nltrie;", <<"chr(8940)">>>>, <<"nmid;", <<"chr(8740)">>>>,
      <<"nopf;", <<"chr(120159)">>>>, <<"not", <<"chr(172)">>>>,
      <<"not;", <<"chr(172)">>>>, <<"notin;", <<"chr(8713)">>>>,
      <<"notinE;", <<"chr(8953)", "chr(824)">>>>,
      <<"notindot;", <<"chr(8949)", "chr(824)">>>>,
      <<"notinva;", <<"chr(8713)">>>>, <<"notinvb;", <<"chr(8951)">>>>,
      <<"notinvc;", <<"chr(8950)">>>>, <<"notni;", <<"chr(8716)">>>>,
      <<"notniva;", <<"chr(8716)">>>>, <<"notnivb;", <<"chr(8958)">>>>,
      <<"notnivc;", <<"chr(8957)">>>>, <<"npar;", <<"chr(8742)">>>>,
      <<"nparallel;", <<"chr(8742)">>>>,
      <<"nparsl;", <<"chr(11005)", "chr(8421)">>>>,
      <<"npart;", <<"chr(8706)", "chr(824)">>>>,
      <<"npolint;", <<"chr(10772)">>>>, <<"npr;", <<"chr(8832)">>>>,
      <<"nprcue;", <<"chr(8928)">>>>,
      <<"npre;", <<"chr(10927)", "chr(824)">>>>,
      <<"nprec;", <<"chr(8832)">>>>,
      <<"npreceq;", <<"chr(10927)", "chr(824)">>>>,
      <<"nrArr;", <<"chr(8655)">>>>, <<"nrarr;", <<"chr(8603)">>>>,
      <<"nrarrc;", <<"chr(10547)", "chr(824)">>>>,
      <<"nrarrw;", <<"chr(8605)", "chr(824)">>>>,
      <<"nrightarrow;", <<"chr(8603)">>>>, <<"nrtri;", <<"chr(8939)">>>>,
      <<"nrtrie;", <<"chr(8941)">>>>, <<"nsc;", <<"chr(8833)">>>>,
      <<"nsccue;", <<"chr(8929)">>>>,
      <<"nsce;", <<"chr(10928)", "chr(824)">>>>,
      <<"nscr;", <<"chr(120003)">>>>, <<"nshortmid;", <<"chr(8740)">>>>,
      <<"nshortparallel;", <<"chr(8742)">>>>, <<"nsim;", <<"chr(8769)">>>>,
      <<"nsime;", <<"chr(8772)">>>>, <<"nsimeq;", <<"chr(8772)">>>>,
      <<"nsmid;", <<"chr(8740)">>>>, <<"nspar;", <<"chr(8742)">>>>,
      <<"nsqsube;", <<"chr(8930)">>>>, <<"nsqsupe;", <<"chr(8931)">>>>,
      <<"nsub;", <<"chr(8836)">>>>,
      <<"nsubE;", <<"chr(10949)", "chr(824)">>>>,
      <<"nsube;", <<"chr(8840)">>>>,
      <<"nsubset;", <<"chr(8834)", "chr(8402)">>>>,
      <<"nsubseteq;", <<"chr(8840)">>>>,
      <<"nsubseteqq;", <<"chr(10949)", "chr(824)">>>>,
      <<"nsucc;", <<"chr(8833)">>>>,
      <<"nsucceq;", <<"chr(10928)", "chr(824)">>>>,
      <<"nsup;", <<"chr(8837)">>>>,
      <<"nsupE;", <<"chr(10950)", "chr(824)">>>>,
      <<"nsupe;", <<"chr(8841)">>>>,
      <<"nsupset;", <<"chr(8835)", "chr(8402)">>>>,
      <<"nsupseteq;", <<"chr(8841)">>>>,
      <<"nsupseteqq;", <<"chr(10950)", "chr(824)">>>>,
      <<"ntgl;", <<"chr(8825)">>>>, <<"ntilde", <<"chr(241)">>>>,
      <<"ntilde;", <<"chr(241)">>>>, <<"ntlg;", <<"chr(8824)">>>>,
      <<"ntriangleleft;", <<"chr(8938)">>>>,
      <<"ntrianglelefteq;", <<"chr(8940)">>>>,
      <<"ntriangleright;", <<"chr(8939)">>>>,
      <<"ntrianglerighteq;", <<"chr(8941)">>>>, <<"nu;", <<"chr(957)">>>>,
      <<"num;", <<"#">>>>, <<"numero;", <<"chr(8470)">>>>,
      <<"numsp;", <<"chr(8199)">>>>, <<"nvDash;", <<"chr(8877)">>>>,
      <<"nvHarr;", <<"chr(10500)">>>>,
      <<"nvap;", <<"chr(8781)", "chr(8402)">>>>,
      <<"nvdash;", <<"chr(8876)">>>>,
      <<"nvge;", <<"chr(8805)", "chr(8402)">>>>,
      <<"nvgt;", <<">", "chr(8402)">>>>, <<"nvinfin;", <<"chr(10718)">>>>,
      <<"nvlArr;", <<"chr(10498)">>>>,
      <<"nvle;", <<"chr(8804)", "chr(8402)">>>>,
      <<"nvlt;", <<"<", "chr(8402)">>>>,
      <<"nvltrie;", <<"chr(8884)", "chr(8402)">>>>,
      <<"nvrArr;", <<"chr(10499)">>>>,
      <<"nvrtrie;", <<"chr(8885)", "chr(8402)">>>>,
      <<"nvsim;", <<"chr(8764)", "chr(8402)">>>>,
      <<"nwArr;", <<"chr(8662)">>>>, <<"nwarhk;", <<"chr(10531)">>>>,
      <<"nwarr;", <<"chr(8598)">>>>, <<"nwarrow;", <<"chr(8598)">>>>,
      <<"nwnear;", <<"chr(10535)">>>>, <<"oS;", <<"chr(9416)">>>>,
      <<"oacute", <<"chr(243)">>>>, <<"oacute;", <<"chr(243)">>>>,
      <<"oast;", <<"chr(8859)">>>>, <<"ocir;", <<"chr(8858)">>>>,
      <<"ocirc", <<"chr(244)">>>>, <<"ocirc;", <<"chr(244)">>>>,
      <<"ocy;", <<"chr(1086)">>>>, <<"odash;", <<"chr(8861)">>>>,
      <<"odblac;", <<"chr(337)">>>>, <<"odiv;", <<"chr(10808)">>>>,
      <<"odot;", <<"chr(8857)">>>>, <<"odsold;", <<"chr(10684)">>>>,
      <<"oelig;", <<"chr(339)">>>>, <<"ofcir;", <<"chr(10687)">>>>,
      <<"ofr;", <<"chr(120108)">>>>, <<"ogon;", <<"chr(731)">>>>,
      <<"ograve", <<"chr(242)">>>>, <<"ograve;", <<"chr(242)">>>>,
      <<"ogt;", <<"chr(10689)">>>>, <<"ohbar;", <<"chr(10677)">>>>,
      <<"ohm;", <<"chr(937)">>>>, <<"oint;", <<"chr(8750)">>>>,
      <<"olarr;", <<"chr(8634)">>>>, <<"olcir;", <<"chr(10686)">>>>,
      <<"olcross;", <<"chr(10683)">>>>, <<"oline;", <<"chr(8254)">>>>,
      <<"olt;", <<"chr(10688)">>>>, <<"omacr;", <<"chr(333)">>>>,
      <<"omega;", <<"chr(969)">>>>, <<"omicron;", <<"chr(959)">>>>,
      <<"omid;", <<"chr(10678)">>>>, <<"ominus;", <<"chr(8854)">>>>,
      <<"oopf;", <<"chr(120160)">>>>, <<"opar;", <<"chr(10679)">>>>,
      <<"operp;", <<"chr(10681)">>>>, <<"oplus;", <<"chr(8853)">>>>,
      <<"or;", <<"chr(8744)">>>>, <<"orarr;", <<"chr(8635)">>>>,
      <<"ord;", <<"chr(10845)">>>>, <<"order;", <<"chr(8500)">>>>,
      <<"orderof;", <<"chr(8500)">>>>, <<"ordf", <<"chr(170)">>>>,
      <<"ordf;", <<"chr(170)">>>>, <<"ordm", <<"chr(186)">>>>,
      <<"ordm;", <<"chr(186)">>>>, <<"origof;", <<"chr(8886)">>>>,
      <<"oror;", <<"chr(10838)">>>>, <<"orslope;", <<"chr(10839)">>>>,
      <<"orv;", <<"chr(10843)">>>>, <<"oscr;", <<"chr(8500)">>>>,
      <<"oslash", <<"chr(248)">>>>, <<"oslash;", <<"chr(248)">>>>,
      <<"osol;", <<"chr(8856)">>>>, <<"otilde", <<"chr(245)">>>>,
      <<"otilde;", <<"chr(245)">>>>, <<"otimes;", <<"chr(8855)">>>>,
      <<"otimesas;", <<"chr(10806)">>>>, <<"ouml", <<"chr(246)">>>>,
      <<"ouml;", <<"chr(246)">>>>, <<"ovbar;", <<"chr(9021)">>>>,
      <<"par;", <<"chr(8741)">>>>, <<"para", <<"chr(182)">>>>,
      <<"para;", <<"chr(182)">>>>, <<"parallel;", <<"chr(8741)">>>>,
      <<"parsim;", <<"chr(10995)">>>>, <<"parsl;", <<"chr(11005)">>>>,
      <<"part;", <<"chr(8706)">>>>, <<"pcy;", <<"chr(1087)">>>>,
      <<"percnt;", <<"%">>>>, <<"period;", <<".">>>>,
      <<"permil;", <<"chr(8240)">>>>, <<"perp;", <<"chr(8869)">>>>,
      <<"pertenk;", <<"chr(8241)">>>>, <<"pfr;", <<"chr(120109)">>>>,
      <<"phi;", <<"chr(966)">>>>, <<"phiv;", <<"chr(981)">>>>,
      <<"phmmat;", <<"chr(8499)">>>>, <<"phone;", <<"chr(9742)">>>>,
      <<"pi;", <<"chr(960)">>>>, <<"pitchfork;", <<"chr(8916)">>>>,
      <<"piv;", <<"chr(982)">>>>, <<"planck;", <<"chr(8463)">>>>,
      <<"planckh;", <<"chr(8462)">>>>, <<"plankv;", <<"chr(8463)">>>>,
      <<"plus;", <<"+">>>>, <<"plusacir;", <<"chr(10787)">>>>,
      <<"plusb;", <<"chr(8862)">>>>, <<"pluscir;", <<"chr(10786)">>>>,
      <<"plusdo;", <<"chr(8724)">>>>, <<"plusdu;", <<"chr(10789)">>>>,
      <<"pluse;", <<"chr(10866)">>>>, <<"plusmn", <<"chr(177)">>>>,
      <<"plusmn;", <<"chr(177)">>>>, <<"plussim;", <<"chr(10790)">>>>,
      <<"plustwo;", <<"chr(10791)">>>>, <<"pm;", <<"chr(177)">>>>,
      <<"pointint;", <<"chr(10773)">>>>, <<"popf;", <<"chr(120161)">>>>,
      <<"pound", <<"chr(163)">>>>, <<"pound;", <<"chr(163)">>>>,
      <<"pr;", <<"chr(8826)">>>>, <<"prE;", <<"chr(10931)">>>>,
      <<"prap;", <<"chr(10935)">>>>, <<"prcue;", <<"chr(8828)">>>>,
      <<"pre;", <<"chr(10927)">>>>, <<"prec;", <<"chr(8826)">>>>,
      <<"precapprox;", <<"chr(10935)">>>>,
      <<"preccurlyeq;", <<"chr(8828)">>>>, <<"preceq;", <<"chr(10927)">>>>,
      <<"precnapprox;", <<"chr(10937)">>>>, <<"precneqq;", <<"chr(10933)">>>>,
      <<"precnsim;", <<"chr(8936)">>>>, <<"precsim;", <<"chr(8830)">>>>,
      <<"prime;", <<"chr(8242)">>>>, <<"primes;", <<"chr(8473)">>>>,
      <<"prnE;", <<"chr(10933)">>>>, <<"prnap;", <<"chr(10937)">>>>,
      <<"prnsim;", <<"chr(8936)">>>>, <<"prod;", <<"chr(8719)">>>>,
      <<"profalar;", <<"chr(9006)">>>>, <<"profline;", <<"chr(8978)">>>>,
      <<"profsurf;", <<"chr(8979)">>>>, <<"prop;", <<"chr(8733)">>>>,
      <<"propto;", <<"chr(8733)">>>>, <<"prsim;", <<"chr(8830)">>>>,
      <<"prurel;", <<"chr(8880)">>>>, <<"pscr;", <<"chr(120005)">>>>,
      <<"psi;", <<"chr(968)">>>>, <<"puncsp;", <<"chr(8200)">>>>,
      <<"qfr;", <<"chr(120110)">>>>, <<"qint;", <<"chr(10764)">>>>,
      <<"qopf;", <<"chr(120162)">>>>, <<"qprime;", <<"chr(8279)">>>>,
      <<"qscr;", <<"chr(120006)">>>>, <<"quaternions;", <<"chr(8461)">>>>,
      <<"quatint;", <<"chr(10774)">>>>, <<"quest;", <<"?">>>>,
      <<"questeq;", <<"chr(8799)">>>>, <<"quot", <<"\"">>>>,
      <<"quot;", <<"\"">>>>, <<"rAarr;", <<"chr(8667)">>>>,
      <<"rArr;", <<"chr(8658)">>>>, <<"rAtail;", <<"chr(10524)">>>>,
      <<"rBarr;", <<"chr(10511)">>>>, <<"rHar;", <<"chr(10596)">>>>,
      <<"race;", <<"chr(8765)", "chr(817)">>>>, <<"racute;", <<"chr(341)">>>>,
      <<"radic;", <<"chr(8730)">>>>, <<"raemptyv;", <<"chr(10675)">>>>,
      <<"rang;", <<"chr(10217)">>>>, <<"rangd;", <<"chr(10642)">>>>,
      <<"range;", <<"chr(10661)">>>>, <<"rangle;", <<"chr(10217)">>>>,
      <<"raquo", <<"chr(187)">>>>, <<"raquo;", <<"chr(187)">>>>,
      <<"rarr;", <<"chr(8594)">>>>, <<"rarrap;", <<"chr(10613)">>>>,
      <<"rarrb;", <<"chr(8677)">>>>, <<"rarrbfs;", <<"chr(10528)">>>>,
      <<"rarrc;", <<"chr(10547)">>>>, <<"rarrfs;", <<"chr(10526)">>>>,
      <<"rarrhk;", <<"chr(8618)">>>>, <<"rarrlp;", <<"chr(8620)">>>>,
      <<"rarrpl;", <<"chr(10565)">>>>, <<"rarrsim;", <<"chr(10612)">>>>,
      <<"rarrtl;", <<"chr(8611)">>>>, <<"rarrw;", <<"chr(8605)">>>>,
      <<"ratail;", <<"chr(10522)">>>>, <<"ratio;", <<"chr(8758)">>>>,
      <<"rationals;", <<"chr(8474)">>>>, <<"rbarr;", <<"chr(10509)">>>>,
      <<"rbbrk;", <<"chr(10099)">>>>, <<"rbrace;", <<"}">>>>,
      <<"rbrack;", <<"]">>>>, <<"rbrke;", <<"chr(10636)">>>>,
      <<"rbrksld;", <<"chr(10638)">>>>, <<"rbrkslu;", <<"chr(10640)">>>>,
      <<"rcaron;", <<"chr(345)">>>>, <<"rcedil;", <<"chr(343)">>>>,
      <<"rceil;", <<"chr(8969)">>>>, <<"rcub;", <<"}">>>>,
      <<"rcy;", <<"chr(1088)">>>>, <<"rdca;", <<"chr(10551)">>>>,
      <<"rdldhar;", <<"chr(10601)">>>>, <<"rdquo;", <<"chr(8221)">>>>,
      <<"rdquor;", <<"chr(8221)">>>>, <<"rdsh;", <<"chr(8627)">>>>,
      <<"real;", <<"chr(8476)">>>>, <<"realine;", <<"chr(8475)">>>>,
      <<"realpart;", <<"chr(8476)">>>>, <<"reals;", <<"chr(8477)">>>>,
      <<"rect;", <<"chr(9645)">>>>, <<"reg", <<"chr(174)">>>>,
      <<"reg;", <<"chr(174)">>>>, <<"rfisht;", <<"chr(10621)">>>>,
      <<"rfloor;", <<"chr(8971)">>>>, <<"rfr;", <<"chr(120111)">>>>,
      <<"rhard;", <<"chr(8641)">>>>, <<"rharu;", <<"chr(8640)">>>>,
      <<"rharul;", <<"chr(10604)">>>>, <<"rho;", <<"chr(961)">>>>,
      <<"rhov;", <<"chr(1009)">>>>, <<"rightarrow;", <<"chr(8594)">>>>,
      <<"rightarrowtail;", <<"chr(8611)">>>>,
      <<"rightharpoondown;", <<"chr(8641)">>>>,
      <<"rightharpoonup;", <<"chr(8640)">>>>,
      <<"rightleftarrows;", <<"chr(8644)">>>>,
      <<"rightleftharpoons;", <<"chr(8652)">>>>,
      <<"rightrightarrows;", <<"chr(8649)">>>>,
      <<"rightsquigarrow;", <<"chr(8605)">>>>,
      <<"rightthreetimes;", <<"chr(8908)">>>>, <<"ring;", <<"chr(730)">>>>,
      <<"risingdotseq;", <<"chr(8787)">>>>, <<"rlarr;", <<"chr(8644)">>>>,
      <<"rlhar;", <<"chr(8652)">>>>, <<"rlm;", <<"chr(8207)">>>>,
      <<"rmoust;", <<"chr(9137)">>>>, <<"rmoustache;", <<"chr(9137)">>>>,
      <<"rnmid;", <<"chr(10990)">>>>, <<"roang;", <<"chr(10221)">>>>,
      <<"roarr;", <<"chr(8702)">>>>, <<"robrk;", <<"chr(10215)">>>>,
      <<"ropar;", <<"chr(10630)">>>>, <<"ropf;", <<"chr(120163)">>>>,
      <<"roplus;", <<"chr(10798)">>>>, <<"rotimes;", <<"chr(10805)">>>>,
      <<"rpar;", <<")">>>>, <<"rpargt;", <<"chr(10644)">>>>,
      <<"rppolint;", <<"chr(10770)">>>>, <<"rrarr;", <<"chr(8649)">>>>,
      <<"rsaquo;", <<"chr(8250)">>>>, <<"rscr;", <<"chr(120007)">>>>,
      <<"rsh;", <<"chr(8625)">>>>, <<"rsqb;", <<"]">>>>,
      <<"rsquo;", <<"chr(8217)">>>>, <<"rsquor;", <<"chr(8217)">>>>,
      <<"rthree;", <<"chr(8908)">>>>, <<"rtimes;", <<"chr(8906)">>>>,
      <<"rtri;", <<"chr(9657)">>>>, <<"rtrie;", <<"chr(8885)">>>>,
      <<"rtrif;", <<"chr(9656)">>>>, <<"rtriltri;", <<"chr(10702)">>>>,
      <<"ruluhar;", <<"chr(10600)">>>>, <<"rx;", <<"chr(8478)">>>>,
      <<"sacute;", <<"chr(347)">>>>, <<"sbquo;", <<"chr(8218)">>>>,
      <<"sc;", <<"chr(8827)">>>>, <<"scE;", <<"chr(10932)">>>>,
      <<"scap;", <<"chr(10936)">>>>, <<"scaron;", <<"chr(353)">>>>,
      <<"sccue;", <<"chr(8829)">>>>, <<"sce;", <<"chr(10928)">>>>,
      <<"scedil;", <<"chr(351)">>>>, <<"scirc;", <<"chr(349)">>>>,
      <<"scnE;", <<"chr(10934)">>>>, <<"scnap;", <<"chr(10938)">>>>,
      <<"scnsim;", <<"chr(8937)">>>>, <<"scpolint;", <<"chr(10771)">>>>,
      <<"scsim;", <<"chr(8831)">>>>, <<"scy;", <<"chr(1089)">>>>,
      <<"sdot;", <<"chr(8901)">>>>, <<"sdotb;", <<"chr(8865)">>>>,
      <<"sdote;", <<"chr(10854)">>>>, <<"seArr;", <<"chr(8664)">>>>,
      <<"searhk;", <<"chr(10533)">>>>, <<"searr;", <<"chr(8600)">>>>,
      <<"searrow;", <<"chr(8600)">>>>, <<"sect", <<"chr(167)">>>>,
      <<"sect;", <<"chr(167)">>>>, <<"semi;", <<";">>>>,
      <<"seswar;", <<"chr(10537)">>>>, <<"setminus;", <<"chr(8726)">>>>,
      <<"setmn;", <<"chr(8726)">>>>, <<"sext;", <<"chr(10038)">>>>,
      <<"sfr;", <<"chr(120112)">>>>, <<"sfrown;", <<"chr(8994)">>>>,
      <<"sharp;", <<"chr(9839)">>>>, <<"shchcy;", <<"chr(1097)">>>>,
      <<"shcy;", <<"chr(1096)">>>>, <<"shortmid;", <<"chr(8739)">>>>,
      <<"shortparallel;", <<"chr(8741)">>>>, <<"shy", <<"chr(173)">>>>,
      <<"shy;", <<"chr(173)">>>>, <<"sigma;", <<"chr(963)">>>>,
      <<"sigmaf;", <<"chr(962)">>>>, <<"sigmav;", <<"chr(962)">>>>,
      <<"sim;", <<"chr(8764)">>>>, <<"simdot;", <<"chr(10858)">>>>,
      <<"sime;", <<"chr(8771)">>>>, <<"simeq;", <<"chr(8771)">>>>,
      <<"simg;", <<"chr(10910)">>>>, <<"simgE;", <<"chr(10912)">>>>,
      <<"siml;", <<"chr(10909)">>>>, <<"simlE;", <<"chr(10911)">>>>,
      <<"simne;", <<"chr(8774)">>>>, <<"simplus;", <<"chr(10788)">>>>,
      <<"simrarr;", <<"chr(10610)">>>>, <<"slarr;", <<"chr(8592)">>>>,
      <<"smallsetminus;", <<"chr(8726)">>>>, <<"smashp;", <<"chr(10803)">>>>,
      <<"smeparsl;", <<"chr(10724)">>>>, <<"smid;", <<"chr(8739)">>>>,
      <<"smile;", <<"chr(8995)">>>>, <<"smt;", <<"chr(10922)">>>>,
      <<"smte;", <<"chr(10924)">>>>,
      <<"smtes;", <<"chr(10924)", "chr(65024)">>>>,
      <<"softcy;", <<"chr(1100)">>>>, <<"sol;", <<"/">>>>,
      <<"solb;", <<"chr(10692)">>>>, <<"solbar;", <<"chr(9023)">>>>,
      <<"sopf;", <<"chr(120164)">>>>, <<"spades;", <<"chr(9824)">>>>,
      <<"spadesuit;", <<"chr(9824)">>>>, <<"spar;", <<"chr(8741)">>>>,
      <<"sqcap;", <<"chr(8851)">>>>,
      <<"sqcaps;", <<"chr(8851)", "chr(65024)">>>>,
      <<"sqcup;", <<"chr(8852)">>>>,
      <<"sqcups;", <<"chr(8852)", "chr(65024)">>>>,
      <<"sqsub;", <<"chr(8847)">>>>, <<"sqsube;", <<"chr(8849)">>>>,
      <<"sqsubset;", <<"chr(8847)">>>>, <<"sqsubseteq;", <<"chr(8849)">>>>,
      <<"sqsup;", <<"chr(8848)">>>>, <<"sqsupe;", <<"chr(8850)">>>>,
      <<"sqsupset;", <<"chr(8848)">>>>, <<"sqsupseteq;", <<"chr(8850)">>>>,
      <<"squ;", <<"chr(9633)">>>>, <<"square;", <<"chr(9633)">>>>,
      <<"squarf;", <<"chr(9642)">>>>, <<"squf;", <<"chr(9642)">>>>,
      <<"srarr;", <<"chr(8594)">>>>, <<"sscr;", <<"chr(120008)">>>>,
      <<"ssetmn;", <<"chr(8726)">>>>, <<"ssmile;", <<"chr(8995)">>>>,
      <<"sstarf;", <<"chr(8902)">>>>, <<"star;", <<"chr(9734)">>>>,
      <<"starf;", <<"chr(9733)">>>>, <<"straightepsilon;", <<"chr(1013)">>>>,
      <<"straightphi;", <<"chr(981)">>>>, <<"strns;", <<"chr(175)">>>>,
      <<"sub;", <<"chr(8834)">>>>, <<"subE;", <<"chr(10949)">>>>,
      <<"subdot;", <<"chr(10941)">>>>, <<"sube;", <<"chr(8838)">>>>,
      <<"subedot;", <<"chr(10947)">>>>, <<"submult;", <<"chr(10945)">>>>,
      <<"subnE;", <<"chr(10955)">>>>, <<"subne;", <<"chr(8842)">>>>,
      <<"subplus;", <<"chr(10943)">>>>, <<"subrarr;", <<"chr(10617)">>>>,
      <<"subset;", <<"chr(8834)">>>>, <<"subseteq;", <<"chr(8838)">>>>,
      <<"subseteqq;", <<"chr(10949)">>>>, <<"subsetneq;", <<"chr(8842)">>>>,
      <<"subsetneqq;", <<"chr(10955)">>>>, <<"subsim;", <<"chr(10951)">>>>,
      <<"subsub;", <<"chr(10965)">>>>, <<"subsup;", <<"chr(10963)">>>>,
      <<"succ;", <<"chr(8827)">>>>, <<"succapprox;", <<"chr(10936)">>>>,
      <<"succcurlyeq;", <<"chr(8829)">>>>, <<"succeq;", <<"chr(10928)">>>>,
      <<"succnapprox;", <<"chr(10938)">>>>, <<"succneqq;", <<"chr(10934)">>>>,
      <<"succnsim;", <<"chr(8937)">>>>, <<"succsim;", <<"chr(8831)">>>>,
      <<"sum;", <<"chr(8721)">>>>, <<"sung;", <<"chr(9834)">>>>,
      <<"sup1", <<"chr(185)">>>>, <<"sup1;", <<"chr(185)">>>>,
      <<"sup2", <<"chr(178)">>>>, <<"sup2;", <<"chr(178)">>>>,
      <<"sup3", <<"chr(179)">>>>, <<"sup3;", <<"chr(179)">>>>,
      <<"sup;", <<"chr(8835)">>>>, <<"supE;", <<"chr(10950)">>>>,
      <<"supdot;", <<"chr(10942)">>>>, <<"supdsub;", <<"chr(10968)">>>>,
      <<"supe;", <<"chr(8839)">>>>, <<"supedot;", <<"chr(10948)">>>>,
      <<"suphsol;", <<"chr(10185)">>>>, <<"suphsub;", <<"chr(10967)">>>>,
      <<"suplarr;", <<"chr(10619)">>>>, <<"supmult;", <<"chr(10946)">>>>,
      <<"supnE;", <<"chr(10956)">>>>, <<"supne;", <<"chr(8843)">>>>,
      <<"supplus;", <<"chr(10944)">>>>, <<"supset;", <<"chr(8835)">>>>,
      <<"supseteq;", <<"chr(8839)">>>>, <<"supseteqq;", <<"chr(10950)">>>>,
      <<"supsetneq;", <<"chr(8843)">>>>, <<"supsetneqq;", <<"chr(10956)">>>>,
      <<"supsim;", <<"chr(10952)">>>>, <<"supsub;", <<"chr(10964)">>>>,
      <<"supsup;", <<"chr(10966)">>>>, <<"swArr;", <<"chr(8665)">>>>,
      <<"swarhk;", <<"chr(10534)">>>>, <<"swarr;", <<"chr(8601)">>>>,
      <<"swarrow;", <<"chr(8601)">>>>, <<"swnwar;", <<"chr(10538)">>>>,
      <<"szlig", <<"chr(223)">>>>, <<"szlig;", <<"chr(223)">>>>,
      <<"target;", <<"chr(8982)">>>>, <<"tau;", <<"chr(964)">>>>,
      <<"tbrk;", <<"chr(9140)">>>>, <<"tcaron;", <<"chr(357)">>>>,
      <<"tcedil;", <<"chr(355)">>>>, <<"tcy;", <<"chr(1090)">>>>,
      <<"tdot;", <<"chr(8411)">>>>, <<"telrec;", <<"chr(8981)">>>>,
      <<"tfr;", <<"chr(120113)">>>>, <<"there4;", <<"chr(8756)">>>>,
      <<"therefore;", <<"chr(8756)">>>>, <<"theta;", <<"chr(952)">>>>,
      <<"thetasym;", <<"chr(977)">>>>, <<"thetav;", <<"chr(977)">>>>,
      <<"thickapprox;", <<"chr(8776)">>>>, <<"thicksim;", <<"chr(8764)">>>>,
      <<"thinsp;", <<"chr(8201)">>>>, <<"thkap;", <<"chr(8776)">>>>,
      <<"thksim;", <<"chr(8764)">>>>, <<"thorn", <<"chr(254)">>>>,
      <<"thorn;", <<"chr(254)">>>>, <<"tilde;", <<"chr(732)">>>>,
      <<"times", <<"chr(215)">>>>, <<"times;", <<"chr(215)">>>>,
      <<"timesb;", <<"chr(8864)">>>>, <<"timesbar;", <<"chr(10801)">>>>,
      <<"timesd;", <<"chr(10800)">>>>, <<"tint;", <<"chr(8749)">>>>,
      <<"toea;", <<"chr(10536)">>>>, <<"top;", <<"chr(8868)">>>>,
      <<"topbot;", <<"chr(9014)">>>>, <<"topcir;", <<"chr(10993)">>>>,
      <<"topf;", <<"chr(120165)">>>>, <<"topfork;", <<"chr(10970)">>>>,
      <<"tosa;", <<"chr(10537)">>>>, <<"tprime;", <<"chr(8244)">>>>,
      <<"trade;", <<"chr(8482)">>>>, <<"triangle;", <<"chr(9653)">>>>,
      <<"triangledown;", <<"chr(9663)">>>>,
      <<"triangleleft;", <<"chr(9667)">>>>,
      <<"trianglelefteq;", <<"chr(8884)">>>>,
      <<"triangleq;", <<"chr(8796)">>>>,
      <<"triangleright;", <<"chr(9657)">>>>,
      <<"trianglerighteq;", <<"chr(8885)">>>>, <<"tridot;", <<"chr(9708)">>>>,
      <<"trie;", <<"chr(8796)">>>>, <<"triminus;", <<"chr(10810)">>>>,
      <<"triplus;", <<"chr(10809)">>>>, <<"trisb;", <<"chr(10701)">>>>,
      <<"tritime;", <<"chr(10811)">>>>, <<"trpezium;", <<"chr(9186)">>>>,
      <<"tscr;", <<"chr(120009)">>>>, <<"tscy;", <<"chr(1094)">>>>,
      <<"tshcy;", <<"chr(1115)">>>>, <<"tstrok;", <<"chr(359)">>>>,
      <<"twixt;", <<"chr(8812)">>>>, <<"twoheadleftarrow;", <<"chr(8606)">>>>,
      <<"twoheadrightarrow;", <<"chr(8608)">>>>, <<"uArr;", <<"chr(8657)">>>>,
      <<"uHar;", <<"chr(10595)">>>>, <<"uacute", <<"chr(250)">>>>,
      <<"uacute;", <<"chr(250)">>>>, <<"uarr;", <<"chr(8593)">>>>,
      <<"ubrcy;", <<"chr(1118)">>>>, <<"ubreve;", <<"chr(365)">>>>,
      <<"ucirc", <<"chr(251)">>>>, <<"ucirc;", <<"chr(251)">>>>,
      <<"ucy;", <<"chr(1091)">>>>, <<"udarr;", <<"chr(8645)">>>>,
      <<"udblac;", <<"chr(369)">>>>, <<"udhar;", <<"chr(10606)">>>>,
      <<"ufisht;", <<"chr(10622)">>>>, <<"ufr;", <<"chr(120114)">>>>,
      <<"ugrave", <<"chr(249)">>>>, <<"ugrave;", <<"chr(249)">>>>,
      <<"uharl;", <<"chr(8639)">>>>, <<"uharr;", <<"chr(8638)">>>>,
      <<"uhblk;", <<"chr(9600)">>>>, <<"ulcorn;", <<"chr(8988)">>>>,
      <<"ulcorner;", <<"chr(8988)">>>>, <<"ulcrop;", <<"chr(8975)">>>>,
      <<"ultri;", <<"chr(9720)">>>>, <<"umacr;", <<"chr(363)">>>>,
      <<"uml", <<"chr(168)">>>>, <<"uml;", <<"chr(168)">>>>,
      <<"uogon;", <<"chr(371)">>>>, <<"uopf;", <<"chr(120166)">>>>,
      <<"uparrow;", <<"chr(8593)">>>>, <<"updownarrow;", <<"chr(8597)">>>>,
      <<"upharpoonleft;", <<"chr(8639)">>>>,
      <<"upharpoonright;", <<"chr(8638)">>>>, <<"uplus;", <<"chr(8846)">>>>,
      <<"upsi;", <<"chr(965)">>>>, <<"upsih;", <<"chr(978)">>>>,
      <<"upsilon;", <<"chr(965)">>>>, <<"upuparrows;", <<"chr(8648)">>>>,
      <<"urcorn;", <<"chr(8989)">>>>, <<"urcorner;", <<"chr(8989)">>>>,
      <<"urcrop;", <<"chr(8974)">>>>, <<"uring;", <<"chr(367)">>>>,
      <<"urtri;", <<"chr(9721)">>>>, <<"uscr;", <<"chr(120010)">>>>,
      <<"utdot;", <<"chr(8944)">>>>, <<"utilde;", <<"chr(361)">>>>,
      <<"utri;", <<"chr(9653)">>>>, <<"utrif;", <<"chr(9652)">>>>,
      <<"uuarr;", <<"chr(8648)">>>>, <<"uuml", <<"chr(252)">>>>,
      <<"uuml;", <<"chr(252)">>>>, <<"uwangle;", <<"chr(10663)">>>>,
      <<"vArr;", <<"chr(8661)">>>>, <<"vBar;", <<"chr(10984)">>>>,
      <<"vBarv;", <<"chr(10985)">>>>, <<"vDash;", <<"chr(8872)">>>>,
      <<"vangrt;", <<"chr(10652)">>>>, <<"varepsilon;", <<"chr(1013)">>>>,
      <<"varkappa;", <<"chr(1008)">>>>, <<"varnothing;", <<"chr(8709)">>>>,
      <<"varphi;", <<"chr(981)">>>>, <<"varpi;", <<"chr(982)">>>>,
      <<"varpropto;", <<"chr(8733)">>>>, <<"varr;", <<"chr(8597)">>>>,
      <<"varrho;", <<"chr(1009)">>>>, <<"varsigma;", <<"chr(962)">>>>,
      <<"varsubsetneq;", <<"chr(8842)", "chr(65024)">>>>,
      <<"varsubsetneqq;", <<"chr(10955)", "chr(65024)">>>>,
      <<"varsupsetneq;", <<"chr(8843)", "chr(65024)">>>>,
      <<"varsupsetneqq;", <<"chr(10956)", "chr(65024)">>>>,
      <<"vartheta;", <<"chr(977)">>>>,
      <<"vartriangleleft;", <<"chr(8882)">>>>,
      <<"vartriangleright;", <<"chr(8883)">>>>, <<"vcy;", <<"chr(1074)">>>>,
      <<"vdash;", <<"chr(8866)">>>>, <<"vee;", <<"chr(8744)">>>>,
      <<"veebar;", <<"chr(8891)">>>>, <<"veeeq;", <<"chr(8794)">>>>,
      <<"vellip;", <<"chr(8942)">>>>, <<"verbar;", <<"|">>>>,
      <<"vert;", <<"|">>>>, <<"vfr;", <<"chr(120115)">>>>,
      <<"vltri;", <<"chr(8882)">>>>,
      <<"vnsub;", <<"chr(8834)", "chr(8402)">>>>,
      <<"vnsup;", <<"chr(8835)", "chr(8402)">>>>,
      <<"vopf;", <<"chr(120167)">>>>, <<"vprop;", <<"chr(8733)">>>>,
      <<"vrtri;", <<"chr(8883)">>>>, <<"vscr;", <<"chr(120011)">>>>,
      <<"vsubnE;", <<"chr(10955)", "chr(65024)">>>>,
      <<"vsubne;", <<"chr(8842)", "chr(65024)">>>>,
      <<"vsupnE;", <<"chr(10956)", "chr(65024)">>>>,
      <<"vsupne;", <<"chr(8843)", "chr(65024)">>>>,
      <<"vzigzag;", <<"chr(10650)">>>>, <<"wcirc;", <<"chr(373)">>>>,
      <<"wedbar;", <<"chr(10847)">>>>, <<"wedge;", <<"chr(8743)">>>>,
      <<"wedgeq;", <<"chr(8793)">>>>, <<"weierp;", <<"chr(8472)">>>>,
      <<"wfr;", <<"chr(120116)">>>>, <<"wopf;", <<"chr(120168)">>>>,
      <<"wp;", <<"chr(8472)">>>>, <<"wr;", <<"chr(8768)">>>>,
      <<"wreath;", <<"chr(8768)">>>>, <<"wscr;", <<"chr(120012)">>>>,
      <<"xcap;", <<"chr(8898)">>>>, <<"xcirc;", <<"chr(9711)">>>>,
      <<"xcup;", <<"chr(8899)">>>>, <<"xdtri;", <<"chr(9661)">>>>,
      <<"xfr;", <<"chr(120117)">>>>, <<"xhArr;", <<"chr(10234)">>>>,
      <<"xharr;", <<"chr(10231)">>>>, <<"xi;", <<"chr(958)">>>>,
      <<"xlArr;", <<"chr(10232)">>>>, <<"xlarr;", <<"chr(10229)">>>>,
      <<"xmap;", <<"chr(10236)">>>>, <<"xnis;", <<"chr(8955)">>>>,
      <<"xodot;", <<"chr(10752)">>>>, <<"xopf;", <<"chr(120169)">>>>,
      <<"xoplus;", <<"chr(10753)">>>>, <<"xotime;", <<"chr(10754)">>>>,
      <<"xrArr;", <<"chr(10233)">>>>, <<"xrarr;", <<"chr(10230)">>>>,
      <<"xscr;", <<"chr(120013)">>>>, <<"xsqcup;", <<"chr(10758)">>>>,
      <<"xuplus;", <<"chr(10756)">>>>, <<"xutri;", <<"chr(9651)">>>>,
      <<"xvee;", <<"chr(8897)">>>>, <<"xwedge;", <<"chr(8896)">>>>,
      <<"yacute", <<"chr(253)">>>>, <<"yacute;", <<"chr(253)">>>>,
      <<"yacy;", <<"chr(1103)">>>>, <<"ycirc;", <<"chr(375)">>>>,
      <<"ycy;", <<"chr(1099)">>>>, <<"yen", <<"chr(165)">>>>,
      <<"yen;", <<"chr(165)">>>>, <<"yfr;", <<"chr(120118)">>>>,
      <<"yicy;", <<"chr(1111)">>>>, <<"yopf;", <<"chr(120170)">>>>,
      <<"yscr;", <<"chr(120014)">>>>, <<"yucy;", <<"chr(1102)">>>>,
      <<"yuml", <<"chr(255)">>>>, <<"yuml;", <<"chr(255)">>>>,
      <<"zacute;", <<"chr(378)">>>>, <<"zcaron;", <<"chr(382)">>>>,
      <<"zcy;", <<"chr(1079)">>>>, <<"zdot;", <<"chr(380)">>>>,
      <<"zeetrf;", <<"chr(8488)">>>>, <<"zeta;", <<"chr(950)">>>>,
      <<"zfr;", <<"chr(120119)">>>>, <<"zhcy;", <<"chr(1078)">>>>,
      <<"zigrarr;", <<"chr(8669)">>>>, <<"zopf;", <<"chr(120171)">>>>,
      <<"zscr;", <<"chr(120015)">>>>, <<"zwj;", <<"chr(8205)">>>>,
      <<"zwnj;", <<"chr(8204)">>>> }

html5_names == {p[1] : p \in html5}
html5_value(name) == (CHOOSE p \in html5 : p[1] = name)[2]

DecDigits == <<"0","1","2","3","4","5","6","7","8","9">>
HexLower == <<"a","b","c","d","e","f">>
HexUpper == <<"A","B","C","D","E","F">>
DecClass == {DecDigits[i] : i \in 1..10}
HexClass == DecClass \cup {HexLower[i] : i \in 1..6} \cup {HexUpper[i] : i \in 1..6}

\* The value of one digit.
DigitValue(c) ==
    IF c \in DecClass THEN (CHOOSE i \in 1..10 : DecDigits[i] = c) - 1
    ELSE IF \E i \in 1..6 : HexLower[i] = c
    THEN (CHOOSE i \in 1..6 : HexLower[i] = c) + 9
    ELSE (CHOOSE i \in 1..6 : HexUpper[i] = c) + 9

\* sys.int_info.default_max_str_digits: int() refuses a decimal string of
\* more digits with ValueError; the program leaves the limit as it is.
int_max_str_digits == 4300

\* The value of a digit string.  Every number above 0x10FFFF is treated
\* alike by _replace_charref, so the value stops growing one above it.
RECURSIVE ParseDigits(_, _)
ParseDigits(digits, base) ==
    IF digits = <<>> THEN 0
    ELSE LET v == ParseDigits(SubSeq(digits, 1, Len(digits) - 1), base) * base
                     + DigitValue(digits[Len(digits)])
         IN  IF v > 1114111 THEN 1114112 ELSE v

\* digits without its leading zeros.
Significant(digits) ==
    LET nz == {i \in 1..Len(digits) : digits[i] /= "0"}
    IN  IF nz = {} THEN <<>>
        ELSE SubSeq(digits, CHOOSE i \in nz : \A k \in nz : i <= k, Len(digits))

\* int(digits, base); -1 stands for the ValueError of a decimal string
\* longer than the limit, leading zeros counted (base 16 has no limit).
\* More than seven significant digits are above 0x10FFFF in both bases.
ParseInt(digits, base) ==
    IF base = 10 /\ Len(digits) > int_max_str_digits THEN -1
    ELSE IF Len(Significant(digits)) > 7 THEN 1114112
    ELSE ParseDigits(Significant(digits), base)

\* The characters that end a name in html._charref: [^\t\n\f <&#;].
NameStop == {"\t", "\n", "\f", " ", "<", "&", "#", ";"}

\* The last index of the greedy [^\t\n\f <&#;]{1,32} from position i of s;
\* i - 1 when it matches nothing.
NameEnd(s, i) ==
    LET stops == {k \in i..Len(s) : s[k] \in NameStop}
        e == IF stops = {} THEN Len(s)
             ELSE (CHOOSE k \in stops : \A m \in stops : k <= m) - 1
    IN  IF e - i + 1 > 32 THEN i + 31 ELSE e

\* e, or e + 1 when a semicolon follows: the optional closing `;?`.
WithSemicolon(s, e) == IF e < Len(s) /\ s[e + 1] = ";" THEN e + 1 ELSE e

\* html._charref matched at the "&" at position i of s:
\*   &(#[0-9]+;?|#[xX][0-9a-fA-F]+;?|[^\t\n\f <&#;]{1,32};?)
\* The index of the last character of the match, 0 when there is none.
charref_end(s, i) ==
    IF i + 1 <= Len(s) /\ s[i + 1] = "#"
    THEN IF RunEnd(s, i + 2, DecClass) >= i + 2
         THEN WithSemicolon(s, RunEnd(s, i + 2, DecClass))
         ELSE IF /\ i + 2 <= Len(s)
                 /\ s[i + 2] \in {"x", "X"}
                 /\ RunEnd(s, i + 3, HexClass) >= i + 3
         THEN WithSemicolon(s, RunEnd(s, i + 3, HexClass))
         ELSE 0
    ELSE IF NameEnd(s, i + 1) >= i + 1
    THEN WithSemicolon(s, NameEnd(s, i + 1))
    ELSE 0

\* str.rstrip(';') of a reference that ends with at most one semicolon.
StripSemicolon(g) ==
    IF g /= <<>> /\ g[Len(g)] = ";" THEN SubSeq(g, 1, Len(g) - 1) ELSE g

\* html._replace_charref for a numeric reference whose number is num.
replace_numeric(num) ==
    IF \E p \in invalid_charrefs : p[1] = num
    THEN <<Chr((CHOOSE p \in invalid_charrefs : p[1] = num)[2])>>
    ELSE IF (55296 <= num /\ num <= 57343) \/ num > 1114111
    THEN <<Chr(65533)>>
    ELSE IF num \in invalid_codepoints
    THEN <<>>
    ELSE <<Chr(num)>>

\* html._replace_charref for a name g: the name itself when html5 holds it,
\* else the longest head of it (two characters at least) that html5 holds,
\* followed by the rest, else the reference as it was written.
replace_named(g) ==
    IF Join(g) \in html5_names
    THEN html5_value(Join(g))
    ELSE LET heads == {x \in 2..(Len(g) - 1) : Join(SubSeq(g, 1, x)) \in html5_names}
         IN  IF heads /= {}
             THEN LET x == CHOOSE h \in heads : \A h2 \in heads : h2 <= h
                  IN  html5_value(Join(SubSeq(g, 1, x))) \o SubSeq(g, x + 1, Len(g))
             ELSE <<"&">> \o g

\* The ValueError that int() raised out of html.unescape, in the place of
\* the text it would have returned.
RaisedValueError == <<"ValueError">>

\* html._replace_charref: g is the reference without its "&".
replace_charref(g) ==
    IF g[1] = "#"
    THEN IF g[2] \in {"x", "X"}
         THEN replace_numeric(ParseInt(StripSemicolon(SubSeq(g, 3, Len(g))), 16))
         ELSE IF ParseInt(StripSemicolon(SubSeq(g, 2, Len(g))), 10) = -1
         THEN RaisedValueError
         ELSE replace_numeric(ParseInt(StripSemicolon(SubSeq(g, 2, Len(g))), 10))
    ELSE replace_named(g)

\* html.unescape: _charref.sub(_replace_charref, s), the matches taken from
\* left to right; a "&" that starts no reference is copied.  A replacement
\* that raises leaves html.unescape with its exception: no text is returned.
RECURSIVE html_unescape(_)
html_unescape(s) ==
    IF s = <<>> THEN <<>>
    ELSE IF s[1] = "&" /\ charref_end(s, 1) > 0
    THEN LET r == replace_charref(SubSeq(s, 2, charref_end(s, 1)))
             rest == html_unescape(Drop(s, charref_end(s, 1)))
         IN  IF r = RaisedValueError \/ rest = RaisedValueError
             THEN RaisedValueError
             ELSE r \o rest
    ELSE LET rest == html_unescape(Drop(s, 1))
         IN  IF rest = RaisedValueError THEN RaisedValueError
             ELSE <<s[1]>> \o rest

\* Python's `x or y` on Optional[str].
Or(x, y) == IF Truthy(x) THEN x ELSE y

\* newsletter.py, send_email_func: the title line.  The conditional
\* expression binds weaker than `or`: 'Untitled' belongs to the else branch.
\* raised: re.search was handed None (TypeError).
func_title(html, plain) ==
    IF Truthy(html)
    THEN [raised |-> FALSE, exc |-> "", title |-> find_title_in_html(html)]
    ELSE IF plain = None
    THEN [raised |-> TRUE, exc |-> "TypeError", title |-> None]
    ELSE [raised |-> FALSE, exc |-> "",
          title |-> Or(find_title_in_markdown(plain), Untitled)]

\* email_service.py, EmailService.send_email: the title.  raised:
\* html.unescape or re.search was handed None (TypeError), or html.unescape
\* met a decimal reference longer than int() takes (ValueError).
service_title(html, plain) ==
    IF Truthy(html)
    THEN IF find_title_in_html(html) = None
         THEN [raised |-> TRUE, exc |-> "TypeError", title |-> None]
         ELSE IF html_unescape(find_title_in_html(html)) = RaisedValueError
         THEN [raised |-> TRUE, exc |-> "ValueError", title |-> None]
         ELSE [raised |-> FALSE, exc |-> "",
               title |-> Or(html_unescape(find_title_in_html(html)), Untitled)]
    ELSE IF plain = None
    THEN [raised |-> TRUE, exc |-> "TypeError", title |-> None]
    ELSE [raised |-> FALSE, exc |-> "",
          title |-> Or(find_title_in_markdown(plain), Untitled)]

\* Both files: `(plain_text or html_text)[:300]` raises when it slices None.
preview_raises(html, plain) == Or(plain, html) = None

\* ------------------------------------------------------------- the gates

\* click.confirm answers: "y", "n", or the end of input, on which it aborts.
Answers == {"y", "n", "eof"}

confirm(answer) ==
    CASE answer = "y" -> "sent"
      [] answer = "n" -> "not_sent"
      [] answer = "eof" -> "abort"

\* newsletter.py, send_email_func: the branch taken in front of sendmail.
func_gate(dry, tty, answer) ==
    IF ~dry
    THEN [prompted |-> TRUE, answered |-> answer, outcome |-> confirm(answer)]
    ELSE [prompted |-> FALSE, answered |-> "", outcome |-> "would"]

\* service_gate that tests dry_run only in front of the confirmation, so
\* that a run without a terminal sends.
service_gate_dry_run_late(dry, tty, answer) ==
    IF ~tty
    THEN [prompted |-> FALSE, answered |-> "", outcome |-> "sent"]
    ELSE IF ~dry
    THEN [prompted |-> TRUE, answered |-> answer, outcome |-> confirm(answer)]
    ELSE [prompted |-> FALSE, answered |-> "", outcome |-> "would"]

\* email_service.py, EmailService.send_email: the branch taken in front of
\* sendmail; click.confirm is called only when stdin is a terminal.
service_gate(dry, tty, answer) ==
    IF ~dry
    THEN IF ~tty
         THEN [prompted |-> FALSE, answered |-> "", outcome |-> "sent"]
         ELSE [prompted |-> TRUE, answered |-> answer, outcome |-> confirm(answer)]
    ELSE [prompted |-> FALSE, answered |-> "", outcome |-> "would"]


\* ---------------------------------------------------------------- actions

NoException == [type |-> "", msg |-> ""]
UsageError(m) == [type |-> "UsageError", msg |-> m]
Raised(t) == [type |-> t, msg |-> ""]

Init ==
    /\ pc = "start"
    /\ config = NoConfig
    /\ inbox = <<>>
    /\ search_response = ""
    /\ failing_fetch = 0
    /\ message_index = 0
    /\ subscribers = <<>>
    /\ prev_subscribers = <<>>
    /\ scan_error = "none"
    /\ filepath = NoFile
    /\ alternative = NoFile
    /\ dry_run = FALSE
    /\ subject_opt = None
    /\ html_text = None
    /\ plain_text = None
    /\ title = None
    /\ isatty = FALSE
    /\ prompted = FALSE
    /\ answered = ""
    /\ sendmail_calls = <<>>
    /\ report = ""
    /\ error = NoException
    /\ exit_code = -1

\* newsletter.py, cli: the group callback loads the config file.
Cli ==
    /\ pc = "start"
    /\ \E file \in ConfigFiles : config' = load_config(file)
    /\ pc' = "send_email"
    /\ UNCHANGED <<scan_vars, arg_vars, content_vars, send_vars, end_vars>>

\* newsletter.py, send_email: ensure_config(config), a usage error ends the
\* command with exit code 2.
EnsureConfig ==
    /\ pc = "send_email"
    /\ IF ensure_config(config) /= ""
       THEN /\ error' = UsageError(ensure_config(config))
            /\ exit_code' = 2
            /\ pc' = "exit"
       ELSE /\ pc' = "sync_search"
            /\ UNCHANGED end_vars
    /\ UNCHANGED <<config, scan_vars, arg_vars, content_vars, send_vars>>

\* newsletter.py, sync_subscribers up to the loop: the search; a response
\* other than OK returns no message numbers and the function returns [].
SyncSearch ==
    /\ pc = "sync_search"
    /\ \E resp \in Responses :
         /\ search_response' = resp
         /\ IF resp /= "OK"
            THEN inbox' = <<>> /\ scan_error' = "search" /\ pc' = "sync_return"
            ELSE /\ \E box \in Inboxes : inbox' = box
                 /\ scan_error' = "none" /\ pc' = "sync_loop"
    /\ failing_fetch' = 0
    /\ subscribers' = <<>>
    /\ prev_subscribers' = <<>>
    /\ message_index' = 1
    /\ UNCHANGED <<config, arg_vars, content_vars, send_vars, end_vars>>

\* newsletter.py, sync_subscribers: one iteration of the loop, for either
\* response of the fetch.  An exception
\* leaves sync_subscribers and send_email: no list is returned, the run ends
\* with the traceback and exit code 1.
SyncFetch ==
    /\ pc = "sync_loop"
    /\ message_index <= Len(inbox)
    /\ \E msg_response \in Responses, text \in NoTexts :
        LET r == sync_iteration(subscribers, msg_response,
                                inbox[message_index], text)
        IN  /\ subscribers' = r.subscribers
            /\ failing_fetch' = IF msg_response /= "OK" THEN message_index
                                ELSE failing_fetch
            /\ IF r.raised /= ""
               THEN /\ pc' = "exit"
                    /\ scan_error' = IF msg_response /= "OK" THEN "fetch"
                                     ELSE "header"
                    /\ error' = Raised(r.raised)
                    /\ exit_code' = 1
                    /\ UNCHANGED <<message_index, prev_subscribers>>
               ELSE IF r.brk
               THEN /\ pc' = "sync_return"
                    /\ scan_error' = r.err
                    /\ UNCHANGED <<message_index, prev_subscribers, end_vars>>
               ELSE /\ pc' = "sync_loop"
                    /\ message_index' = message_index + 1
                    /\ prev_subscribers' = subscribers
                    /\ UNCHANGED <<scan_error, end_vars>>
    /\ UNCHANGED <<inbox, search_response>>
    /\ UNCHANGED <<config, arg_vars, content_vars, send_vars>>

\* newsletter.py, sync_subscribers: the loop has run through message_numbers.
SyncLoopEnd ==
    /\ pc = "sync_loop"
    /\ message_index > Len(inbox)
    /\ pc' = "sync_return"
    /\ UNCHANGED <<config, scan_vars, arg_vars, content_vars, send_vars, end_vars>>

\* newsletter.py, sync_subscribers returns to send_email: the list is kept,
\* the function's locals and the IMAP session are gone.
SyncReturn ==
    /\ pc = "sync_return"
    /\ pc' = "select_content"
    /\ inbox' = <<>>
    /\ search_response' = ""
    /\ failing_fetch' = 0
    /\ message_index' = 0
    /\ prev_subscribers' = <<>>
    /\ UNCHANGED <<subscribers, scan_error>>
    /\ UNCHANGED <<config, arg_vars, content_vars, send_vars, end_vars>>

\* newsletter.py, send_email after the scan: classify the documents, raise
\* the usage error of a conflict, else read them into the two parts.  Two
\* arguments that name the same file read the same content.
SelectContent ==
    /\ pc = "select_content"
    /\ \E f \in Files, alt \in Files \cup {NoFile}, dr \in BOOLEAN,
          subj \in {None, <<"S">>} :
         /\ (alt /= NoFile /\ alt.name = f.name) => alt.body = f.body
         /\ filepath' = f
         /\ alternative' = alt
         /\ dry_run' = dr
         /\ subject_opt' = subj
         /\ IF content_conflict(f, alt) /= ""
            THEN /\ error' = UsageError(content_conflict(f, alt))
                 /\ exit_code' = 2
                 /\ pc' = "exit"
                 /\ UNCHANGED content_vars
            ELSE /\ html_text' = select_content(f, alt).html_text
                 /\ plain_text' = select_content(f, alt).plain_text
                 /\ pc' = "send_email_func"
                 /\ UNCHANGED end_vars
    /\ UNCHANGED <<config, scan_vars, send_vars>>

\* The end of a send function: an exception before the gate, or the branch
\* the gate takes.  server.sendmail refuses an empty recipient list with
\* SMTPRecipientsRefused (smtplib: no recipient was accepted), so that the
\* 'Sent' line behind the call is not printed.  t is the title with the
\* exception its derivation raised, preview says that the preview raised.
SendOutcome(t, preview, g, tty) ==
    /\ isatty' = tty
    /\ title' = t.title
    /\ IF t.raised \/ preview
       THEN /\ error' = Raised(IF t.raised THEN t.exc ELSE "TypeError")
            /\ exit_code' = 1
            /\ UNCHANGED <<prompted, answered, sendmail_calls, report>>
       ELSE /\ prompted' = g.prompted
            /\ answered' = g.answered
            /\ sendmail_calls' = IF g.outcome = "sent"
                                 THEN Append(sendmail_calls, subscribers)
                                 ELSE sendmail_calls
            /\ IF g.outcome = "abort"
               THEN /\ error' = Raised("Abort")
                    /\ exit_code' = 1
                    /\ UNCHANGED report
               ELSE IF g.outcome = "sent" /\ subscribers = <<>>
               THEN /\ error' = Raised("SMTPRecipientsRefused")
                    /\ exit_code' = 1
                    /\ UNCHANGED report
               ELSE /\ report' = g.outcome
                    /\ exit_code' = 0
                    /\ UNCHANGED error
    /\ pc' = "exit"

\* newsletter.py, send_email_func.
SendEmailFunc ==
    /\ pc = "send_email_func"
    /\ \E tty \in BOOLEAN, answer \in Answers :
         SendOutcome(func_title(html_text, plain_text),
                     preview_raises(html_text, plain_text),
                     func_gate(dry_run, tty, answer), tty)
    /\ UNCHANGED <<config, scan_vars, arg_vars, content_vars>>

\* email_service.py, EmailService.get_subscribers up to the loop.
GetSearch ==
    /\ pc = "start"
    /\ \E resp \in Responses :
         /\ search_response' = resp
         /\ IF resp /= "OK"
            THEN inbox' = <<>> /\ scan_error' = "search" /\ pc' = "get_return"
            ELSE /\ \E box \in Inboxes : inbox' = box
                 /\ scan_error' = "none" /\ pc' = "get_loop"
    /\ failing_fetch' = 0
    /\ subscribers' = <<>>
    /\ prev_subscribers' = <<>>
    /\ message_index' = 1
    /\ UNCHANGED <<config, arg_vars, content_vars, send_vars, end_vars>>

\* email_service.py, EmailService.get_subscribers: one iteration of the
\* loop.  An exception leaves get_subscribers: the caller gets no list.
GetFetch ==
    /\ pc = "get_loop"
    /\ message_index <= Len(inbox)
    /\ \E msg_response \in Responses, text \in NoTexts :
        LET r == get_iteration(subscribers, msg_response,
                                inbox[message_index], text)
        IN  /\ subscribers' = r.subscribers
            /\ failing_fetch' = IF msg_response /= "OK" THEN message_index
                                ELSE failing_fetch
            /\ IF r.raised /= ""
               THEN /\ pc' = "exit"
                    /\ scan_error' = IF msg_response /= "OK" THEN "fetch"
                                     ELSE "header"
                    /\ error' = Raised(r.raised)
                    /\ exit_code' = 1
                    /\ UNCHANGED <<message_index, prev_subscribers>>
               ELSE IF r.brk
               THEN /\ pc' = "get_return"
                    /\ scan_error' = r.err
                    /\ UNCHANGED <<message_index, prev_subscribers, end_vars>>
               ELSE /\ pc' = "get_loop"
                    /\ message_index' = message_index + 1
                    /\ prev_subscribers' = subscribers
                    /\ UNCHANGED <<scan_error, end_vars>>
    /\ UNCHANGED <<inbox, search_response>>
    /\ UNCHANGED <<config, arg_vars, content_vars, send_vars>>

\* email_service.py, EmailService.get_subscribers: the loop is through.
GetLoopEnd ==
    /\ pc = "get_loop"
    /\ message_index > Len(inbox)
    /\ pc' = "get_return"
    /\ UNCHANGED <<config, scan_vars, arg_vars, content_vars, send_vars, end_vars>>

\* email_service.py, EmailService.get_subscribers returns the list.
GetReturn ==
    /\ pc = "get_return"
    /\ pc' = "service_send"
    /\ inbox' = <<>>
    /\ search_response' = ""
    /\ failing_fetch' = 0
    /\ message_index' = 0
    /\ prev_subscribers' = <<>>
    /\ UNCHANGED <<subscribers, scan_error>>
    /\ UNCHANGED <<config, arg_vars, content_vars, send_vars, end_vars>>

\* email_service.py, EmailService.send_email, called with the list that
\* get_subscribers returned and any two parts.
ServiceSendEmail ==
    /\ pc = "service_send"
    /\ \E h \in Bodies \cup {None}, p \in Bodies \cup {None}, dr \in BOOLEAN,
          tty \in BOOLEAN, answer \in Answers :
         /\ html_text' = h
         /\ plain_text' = p
         /\ dry_run' = dr
         /\ SendOutcome(service_title(h, p), preview_raises(h, p),
                        service_gate(dr, tty, answer), tty)
    /\ UNCHANGED <<config, scan_vars, filepath, alternative, subject_opt>>

Next ==
    \/ Cli
    \/ EnsureConfig
    \/ SyncSearch
    \/ SyncFetch
    \/ SyncLoopEnd
    \/ SyncReturn
    \/ SelectContent
    \/ SendEmailFunc
    \/ GetSearch
    \/ GetFetch
    \/ GetLoopEnd
    \/ GetReturn
    \/ ServiceSendEmail

Spec == Init /\ [][Next]_vars


\* ------------------------------------------------- the scan's properties

AddrA == <<"a","@","x",".","y">>
AddrB == <<"b","@","x",".","y">>

InScan == pc \in {"sync_loop", "sync_return", "get_loop", "get_return"}
AtReturn == pc \in {"sync_return", "get_return"}

\* The address of a message's sender, None when From is no str or holds
\* no address; and what its subject asks for, nothing when it is no str.
Sender(m) == IF IsStr(m.from) THEN email_regex_search(m.from) ELSE None
IsUnsubscribe(m) ==
    IsStr(m.subject) /\ Contains(unsubscribe_kw, Lower(m.subject))
MentionsSubscribe(m) ==
    IsStr(m.subject) /\ Contains(subscribe_kw, Lower(m.subject))
IsSubscribe(m) == MentionsSubscribe(m) /\ ~IsUnsubscribe(m)

\* The scan is over and no collaborator call failed: search and every fetch
\* answered OK, and the function has reached its return or has raised on a
\* message.
ScanEnded ==
    /\ search_response = "OK"
    /\ AtReturn \/ (pc = "exit" /\ scan_error = "header")

\* A message has been processed: the list before it is prev_subscribers.
Processed == InScan /\ search_response = "OK" /\ message_index > 1
LastMessage == inbox[message_index - 1]

NoDuplicates(l) == \A i, j \in 1..Len(l) : l[i] = l[j] => i = j

\* The list accumulated from the messages in front of message i (all of
\* which parse), by the update of the function that is scanning.
RECURSIVE AccumulatedBefore(_)
AccumulatedBefore(i) ==
    IF i <= 1 THEN <<>>
    ELSE LET m == inbox[i - 1]
         IN  IF pc \in {"sync_loop", "sync_return"}
             THEN sync_update(AccumulatedBefore(i - 1), Sender(m), m.subject)
             ELSE get_update(AccumulatedBefore(i - 1), Sender(m), m.subject)

\* C1: processing a message whose lower-cased subject contains "unsubscribe"
\* never adds its sender: a sender that is a subscriber is removed, and for
\* a sender that is none the list is left as it was (so [unsubscribe(A)]
\* yields the empty list).
C1_UnsubscribeNeverAdds ==
    (Processed /\ IsUnsubscribe(LastMessage)) =>
        subscribers = IF InList(Sender(LastMessage), prev_subscribers)
                      THEN Remove(prev_subscribers, Sender(LastMessage))
                      ELSE prev_subscribers

\* C2: when the from header of the i-th scanned message holds no address
\* (and the messages in front of it were processed), the scan stops there
\* and returns the list accumulated from the messages in front of i,
\* whatever follows i.
C2_UnparseableSenderStopsScan ==
    ScanEnded =>
        \A i \in 1..Len(inbox) :
            ( /\ Sender(inbox[i]) = None
              /\ \A k \in 1..(i - 1) :
                    Sender(inbox[k]) /= None /\ IsStr(inbox[k].subject) )
            => /\ AtReturn
               /\ subscribers = AccumulatedBefore(i)
               /\ message_index = i

\* C3: when every message has a sender that parses, the scan returns a list,
\* and an address whose last message mentioning "subscribe" is a subscribe
\* request (no "unsubscribe" in it) is in that list, whatever it sent
\* before.
C3_LastSubscribeWins ==
    (ScanEnded /\ \A k \in 1..Len(inbox) : Sender(inbox[k]) /= None) =>
        \A i \in 1..Len(inbox) :
            ( /\ IsSubscribe(inbox[i])
              /\ \A k \in (i + 1)..Len(inbox) :
                    Sender(inbox[k]) = Sender(inbox[i])
                        => ~MentionsSubscribe(inbox[k]) )
            => /\ AtReturn
               /\ InList(Sender(inbox[i]), subscribers)

\* The scan has raised on the message at message_index.
ScanRaised == pc = "exit" /\ scan_error \in {"fetch", "header"}

\* C4: at every step of the scan, for every message sequence, the list
\* holds no address twice; a subscribe message from an address that is a
\* subscriber leaves the list as it was, and a step that raises leaves the
\* list as the last processed message left it.
C4_NoDuplicateSubscribers ==
    /\ NoDuplicates(subscribers)
    /\ (Processed /\ IsSubscribe(LastMessage)
            /\ InList(Sender(LastMessage), prev_subscribers))
       => subscribers = prev_subscribers
    /\ ScanRaised =>
          \/ message_index = 1 /\ subscribers = <<>>
          \/ /\ message_index > 1
             /\ subscribers \in
                   { sync_update(prev_subscribers, Sender(LastMessage),
                                 LastMessage.subject),
                     get_update(prev_subscribers, Sender(LastMessage),
                                LastMessage.subject) }

\* C4 witness: [subscribe(A), subscribe(A)] has been processed and A is in
\* the list once.
C4_Witness ==
    /\ Processed /\ message_index = 3
    /\ Sender(inbox[1]) = AddrA /\ IsSubscribe(inbox[1])
    /\ Sender(inbox[2]) = AddrA /\ IsSubscribe(inbox[2])
    /\ subscribers = <<AddrA>>


\* -------------------------------------------- the send step's properties

\* A send function has run up to its gate in front of sendmail: it has
\* printed its report, or the prompt was aborted, or sendmail was called and
\* refused the list.
GateReached ==
    /\ pc = "exit"
    /\ (report /= "" \/ error.type \in {"Abort", "SMTPRecipientsRefused"})

\* The send-email command has taken its documents, and the send function it
\* calls has not been entered.
ArgsTaken == filepath /= NoFile
SendNotInvoked ==
    /\ sendmail_calls = <<>>
    /\ report = ""
    /\ ~prompted
    /\ html_text = None /\ plain_text = None /\ title = None

html_tag == <<"<","h","t","m","l",">">>

\* A text holds "<html>", compared without regard to case.
HoldsHtmlTag(text) == Contains(html_tag, Lower(text))

\* C5: with dry_run no sendmail call is made, whatever the subscriber list,
\* the two parts, the terminal state and the answer; the gate reports
\* "Would have sent".
C5_DryRunNeverSends ==
    dry_run => /\ sendmail_calls = <<>>
               /\ GateReached => report = "would"

\* C5 witness: a dry run for a list that is not empty has passed the gate.
C5_Witness ==
    /\ GateReached /\ dry_run /\ subscribers /= <<>>
    /\ report = "would" /\ sendmail_calls = <<>>

\* C6: two documents that are both classified HTML, or neither, end the
\* command with a usage error and exit code 2, and the send function is
\* never invoked.
C6_ConflictIsUsageError ==
    ( /\ ArgsTaken /\ alternative /= NoFile
      /\ is_html(filepath.name) <=> is_html(alternative.name) )
    => /\ pc = "exit"
       /\ error.type = "UsageError"
       /\ exit_code = 2
       /\ SendNotInvoked

\* C6 witness: two different plain documents ended in the usage error.
C6_Witness ==
    /\ ArgsTaken /\ alternative /= NoFile /\ alternative /= filepath
    /\ ~is_html(filepath.name) /\ ~is_html(alternative.name)
    /\ pc = "exit" /\ exit_code = 2
    /\ error = UsageError("Neither file is HTML")

\* The documents of the command, and those of them classified HTML / plain.
Documents == {filepath} \cup ({alternative} \ {NoFile})
HtmlDocuments == {d \in Documents : is_html(d.name)}
PlainDocuments == {d \in Documents : ~is_html(d.name)}
BodyOfOnly(docs) == IF docs = {} THEN None ELSE (CHOOSE d \in docs : TRUE).body

\* The command has passed the two-document check.
ContentSelected == ArgsTaken /\ error.type /= "UsageError"

\* C7: the html part is the body of the document classified HTML and the
\* plain part the body of the one classified plain, None when there is no
\* such document; both argument orders give the same pair, and a single
\* document sets one part only.
C7_PartsByClassification ==
    ContentSelected =>
        /\ html_text = BodyOfOnly(HtmlDocuments)
        /\ plain_text = BodyOfOnly(PlainDocuments)
        /\ alternative /= NoFile =>
              select_content(alternative, filepath)
                  = [html_text |-> html_text, plain_text |-> plain_text]
        /\ alternative = NoFile => (html_text = None) /= (plain_text = None)

\* C7 witness: a plain first document and an HTML second one, with
\* different contents, have been handed on as (html, plain).
C7_Witness ==
    /\ ContentSelected /\ alternative /= NoFile
    /\ ~is_html(filepath.name) /\ is_html(alternative.name)
    /\ filepath.body /= alternative.body
    /\ html_text = alternative.body /\ plain_text = filepath.body

\* C8: a document is classified HTML exactly when its text holds "<html>"
\* (without regard to case), whatever its file name and its position: a
\* single document becomes the html part exactly then, and two documents
\* are refused exactly when both texts or neither hold it.
C8_ClassifiedByContent ==
    /\ (ContentSelected /\ alternative = NoFile) =>
          /\ HoldsHtmlTag(filepath.body)
                => (html_text = filepath.body /\ plain_text = None)
          /\ ~HoldsHtmlTag(filepath.body)
                => (html_text = None /\ plain_text = filepath.body)
    /\ (ArgsTaken /\ alternative /= NoFile) =>
          ( (error.type = "UsageError")
            <=> ( HoldsHtmlTag(filepath.body)
                  <=> HoldsHtmlTag(alternative.body) ) )

\* C9: without dry_run, a run whose stdin is no terminal sends without a
\* prompt; a run on a terminal prompts and sends exactly when the answer
\* confirms.
C9_GateFollowsInteractivity ==
    (GateReached /\ ~dry_run) =>
        IF ~isatty
        THEN ~prompted /\ Len(sendmail_calls) = 1
        ELSE prompted /\ (Len(sendmail_calls) = 1 <=> answered = "y")

\* C10: a search or a fetch that answers other than OK ends the run in
\* front of the send step.
C10_FailedScanIsFatal ==
    scan_error \in {"search", "fetch"} =>
        /\ pc /= "send_email_func"
        /\ ArgsTaken => SendNotInvoked


\* ---------------------------------------------- the config's properties

\* ensure_config has raised its usage error.
ConfigRefused == pc = "exit" /\ ~ArgsTaken /\ error.type = "UsageError"

\* C11: ensure_config gives each configuration failure its own message: a
\* load that failed with FileNotFoundError or AssertionError is reported as
\* "Couldn't find config file", one that failed with JSONDecodeError,
\* KeyError or TypeError as "Couldn't read config file", and "Config file
\* contains empty value(s)" is kept for a config that loaded without error
\* and has an empty host, user or password.
C11_ConfigErrorsDistinguished ==
    ConfigRefused =>
        /\ config.error.cls \in {"FileNotFoundError", "AssertionError"}
              => error.msg = "Couldn't find config file"
        /\ config.error.cls \in {"JSONDecodeError", "KeyError", "TypeError"}
              => error.msg = "Couldn't read config file"
        /\ error.msg = "Config file contains empty value(s)"
              => /\ config.error = NoError
                 /\ (~Truthy(config.host) \/ ~Truthy(config.user)
                        \/ ~Truthy(config.password))


\* ------------------------------------------------ the title's properties

\* A send function has been entered and has ended: the run is over and was
\* ended neither by a usage error nor by the scan.
SendEnded ==
    /\ pc = "exit"
    /\ error.type /= "UsageError"
    /\ scan_error \notin {"fetch", "header"}

\* C12: the title derivation always yields a title: for an HTML part with an
\* <h1>...</h1> capture it is the captured text with its entities decoded;
\* when the part that is searched (HTML without <h1>, or plain text without
\* a "# " heading) gives no match it is "Untitled", and the derivation
\* raises nothing.
C12_TitleFallsBackToUntitled ==
    SendEnded =>
        /\ (Truthy(html_text) /\ find_title_in_html(html_text) /= None)
              => title = html_unescape(find_title_in_html(html_text))
        /\ (Truthy(html_text) /\ find_title_in_html(html_text) = None)
              => title = Untitled
        /\ (~Truthy(html_text) /\ plain_text /= None
                /\ find_title_in_markdown(plain_text) = None)
              => title = Untitled
        /\ (Truthy(html_text) \/ plain_text /= None)
              => (error.type = "TypeError"
                     => preview_raises(html_text, plain_text))

====
